---------------------------- MODULE Spec2Model ----------------------------
(***************************************************************************)
(* Cyberchess online server: matchmaking queue, active game sessions and   *)
(* settlement, as implemented by server.py on top of database.py.          *)
(*                                                                         *)
(* Every request handler is a process that interleaves with the other      *)
(* handlers between two database calls: each ChessDatabase method runs its *)
(* statements and commits, and nothing in server.py or database.py holds a *)
(* lock across two calls.                                                  *)
(***************************************************************************)
EXTENDS Integers, Sequences, FiniteSets, TLC

(* ------------------------------ bounds -------------------------------- *)

\* concurrent request handlers (threads serving one request each)
NumHandlers == 2
\* registered accounts (user_id 1..NumUsers)
NumUsers == 3
\* sessions that matchmaking may create in one run
MaxSessions == 2
\* moves a session log may hold when a new make_move request is issued
MaxPly == 1
\* sessions created before the game events of SpecPlay
PlaySessions == 1
\* ticks of the database clock (CURRENT_TIMESTAMP has one-second resolution)
MaxTime == 1
\* queue rows inserted in one run of SpecQueue and of SpecFind
MaxEntries == 4
\* client connections (request.sid) that send join_game and leave_game
NumConnections == 2
\* events a room has been sent when a join_game or leave_game request arrives
MaxEvents == 2

Handlers == 1..NumHandlers
UserIds == 1..NumUsers
SessionIds == 1..MaxSessions
Connections == 1..NumConnections
\* room names: the session ids, and 0 for a name that is no session's id
RoomIds == {0} \cup SessionIds

(* ------------------------- program constants -------------------------- *)

\* k_factor default of calculate_elo_rating
KFactor == 32
\* rating_range default of find_match
RatingRange == 200
\* white_time_remaining / black_time_remaining written by create_active_game
InitialClock == 300

TimeControls == {"blitz"}

\* the time controls and the ratings of the accounts in SpecFind
FindClasses == {"blitz", "rapid"}

FindRatings == <<1000, 1200, 1350>>

(* --------------------------- rules oracle ----------------------------- *)
(* python-chess as used by handle_make_move: a position (the FEN) carries  *)
(* the side to move and the ply count; a position that is checkmate or     *)
(* stalemate has no legal move.  The moves are abstract: "quiet" continues *)
(* the game, "mate" checkmates the opponent, "stale" stalemates the        *)
(* opponent, "illegal" parses as UCI but is not in board.legal_moves, and  *)
(* "garbage" does not parse (chess.Move.from_uci raises).                  *)

Moves == {"quiet", "mate", "stale", "illegal", "garbage"}

StartFen == [turn |-> "w", ply |-> 0, status |-> "*"]

Other(t) == IF t = "w" THEN "b" ELSE "w"

ParsesAsUci(m) == m # "garbage"

LegalMoves(fen) == IF fen.status = "*" THEN {"quiet", "mate", "stale"} ELSE {}

Push(fen, m) ==
    [turn |-> Other(fen.turn),
     ply |-> fen.ply + 1,
     status |-> IF m = "mate" THEN "checkmate"
                ELSE IF m = "stale" THEN "stalemate" ELSE "*"]

IsGameOver(fen) == fen.status # "*"

BoardResult(fen) ==
    IF fen.status = "checkmate"
    THEN (IF fen.turn = "w" THEN "0-1" ELSE "1-0")
    ELSE IF fen.status = "stalemate" THEN "1/2-1/2" ELSE "*"

(* ----------------------------- database ------------------------------- *)

\* floor(400 * log10((65 - 2n) / (2n - 1))) for n = 1..32: round(32 * e) for
\* e = 1 / (1 + 10 ** (d / 400)) is the number of entries that are >= d.
EloSteps ==
    <<719, 523, 428, 364, 314, 273, 237, 205, 176, 149, 124, 100, 77, 54, 32,
      10, -11, -33, -55, -78, -101, -125, -150, -177, -206, -238, -274, -315,
      -365, -429, -524, -720>>

\* round(k_factor * expected_score) for the rating difference d
RoundedExpected(d) == Cardinality({n \in 1..KFactor : d <= EloSteps[n]})

\* calculate_elo_rating taking the expected score from the size of the rating
\* difference, whoever is ahead
calculate_elo_rating_abs(player_rating, opponent_rating, score2) ==
    LET d == opponent_rating - player_rating IN
    player_rating + (KFactor \div 2) * score2
        - RoundedExpected(IF d < 0 THEN -d ELSE d)

\* score is passed doubled (2 win, 1 draw, 0 loss) to stay in the integers
calculate_elo_rating(player_rating, opponent_rating, score2) ==
    player_rating + (KFactor \div 2) * score2
        - RoundedExpected(opponent_rating - player_rating)

Abs(x) == IF x < 0 THEN -x ELSE x

(* ------------------------------- state -------------------------------- *)

VARIABLES
    users,              \* table users: user_id -> rating and game counters
    matchmaking_queue,  \* table matchmaking_queue: a set of rows
    active_games,       \* table active_games: session_id -> row
    games,              \* table games: rows in game_id order
    next_session,       \* session ids generated so far are 1..next_session-1
    last_queue_id,      \* AUTOINCREMENT of matchmaking_queue.queue_id
    emitted,            \* per room (session id), the events broadcast to it
    now,                \* the database clock, in seconds
    handler,            \* per handler thread, the request it is serving
    rooms,              \* per room (session id), the connections joined to it
    accounts,           \* table users: user_id -> the credential columns
    chess_game,         \* game_modes.py: the fields of the ChessGame object
    local               \* game_modes.py: where play() and its caller stand

vars == <<users, matchmaking_queue, active_games, games, next_session,
          last_queue_id, emitted, now, handler, rooms, accounts,
          chess_game, local>>

\* local variables of a handler that is serving no request; held_turn,
\* issued_on and issued_over are no variables of the code: they record what
\* the session was like when the request arrived; your_color is the field
\* of that name in the reply to a matched join request (color in the reply
\* to join_game); request_sid is the connection a socket event came on
Idle ==
    [op |-> "idle", pc |-> "idle", session_id |-> 0, user_id |-> 0,
     time_control |-> "", move |-> "", rating |-> 0, opponent |-> 0,
     queue_id |-> 0, opponent_queue_id |-> 0,
     white_id |-> 0, game |-> <<>>, fen |-> StartFen, move_history |-> <<>>,
     white_before |-> 0, black_before |-> 0, result |-> "",
     white_after |-> 0, black_after |-> 0, reply |-> "", your_color |-> "",
     request_sid |-> 0, username |-> 0, password |-> 0, email |-> 0,
     held_turn |-> FALSE, issued_on |-> <<>>, issued_over |-> FALSE]

\* Python's None, for a field that holds a dict
None == [none |-> TRUE]

\* ChessGame.__init__: a new board, no moves, no time control (the two clocks
\* are None and are not read before enable_time_control has set them)
NewChessGame ==
    [board |-> StartFen, move_history |-> <<>>, time_controls |-> None,
     white_time |-> None, black_time |-> None]

\* play() has not been called and no method of the object either (call,
\* color, move and time_used are the last method called and its arguments)
LocalIdle ==
    [pc |-> "setup", time_forfeit |-> FALSE, winner |-> "", result |-> "",
     calls |-> 0, call |-> "", color |-> "", move |-> "", time_used |-> 0]

\* hashlib.sha256(password.encode()).hexdigest()
hash_password(password) == [sha256 |-> password]

\* the credential columns of the accounts 1..NumUsers: the n-th account has
\* the n-th username, the first password, no email and has never logged in
\* (0 stands for None, last_login -1 for NULL)
Registered ==
    [u \in UserIds |->
        [username |-> u, password_hash |-> hash_password(1),
         email |-> 0, last_login |-> -1]]

\* rows of the users table as create_user leaves them, with the ratings of
\* accounts that have played before
Init ==
    /\ users = [u \in UserIds |->
                  [rating |-> IF u = 2 THEN 1210 ELSE 1200,
                   games_played |-> 0, games_won |-> 0,
                   games_lost |-> 0, games_drawn |-> 0]]
    /\ matchmaking_queue = {}
    /\ active_games = <<>>
    /\ games = <<>>
    /\ next_session = 1
    /\ last_queue_id = 0
    /\ emitted = [s \in RoomIds |-> <<>>]
    /\ now = 0
    /\ handler = [h \in Handlers |-> Idle]
    /\ rooms = [s \in RoomIds |-> {}]
    /\ accounts = Registered
    /\ chess_game = NewChessGame
    /\ local = LocalIdle

\* the handler's record with its request finished and the reply sent
Done(h, reply) == [handler[h] EXCEPT !.pc = "done", !.reply = reply]

\* sessions that exist in active_games
Active == DOMAIN active_games

\* the one-second clock of CURRENT_TIMESTAMP moves on
Tick ==
    /\ now < MaxTime
    /\ now' = now + 1
    /\ UNCHANGED <<users, matchmaking_queue, active_games, games,
                   next_session, last_queue_id, emitted, handler,
                   rooms, accounts,
                   chess_game, local>>

\* the reply has been sent: the thread is free for the next request
Return(h) ==
    /\ handler[h].pc = "done"
    /\ handler' = [handler EXCEPT ![h] = Idle]
    /\ UNCHANGED <<users, matchmaking_queue, active_games, games,
                   next_session, last_queue_id, emitted, now,
                   rooms, accounts,
                   chess_game, local>>

(* --------------------- database.py: matchmaking ----------------------- *)

\* the rows of matchmaking_queue with this user_id (at most one: UNIQUE)
QueueEntry(queue, user_id) == {e \in queue : e.user_id = user_id}

\* join_matchmaking_queue as INSERT OR REPLACE: a second join renews the row
join_matchmaking_queue_replace(queue, queue_id, user_id, rating, time_control, joined_at) ==
    (queue \ QueueEntry(queue, user_id))
        \cup {[queue_id |-> queue_id, user_id |-> user_id,
                rating |-> rating, time_control |-> time_control,
                joined_at |-> joined_at]}

\* join_matchmaking_queue on a table without UNIQUE(user_id)
join_matchmaking_queue_always(queue, queue_id, user_id, rating, time_control, joined_at) ==
    queue \cup {[queue_id |-> queue_id, user_id |-> user_id,
                 rating |-> rating, time_control |-> time_control,
                 joined_at |-> joined_at]}

\* INSERT INTO matchmaking_queue; False on the UNIQUE(user_id) violation
join_matchmaking_queue(queue, queue_id, user_id, rating, time_control, joined_at) ==
    IF QueueEntry(queue, user_id) # {}
    THEN queue
    ELSE queue \cup {[queue_id |-> queue_id, user_id |-> user_id,
                      rating |-> rating, time_control |-> time_control,
                      joined_at |-> joined_at]}

\* leave_matchmaking_queue with the WHERE clause left out
leave_matchmaking_queue_all(queue, user_id) == {}

\* DELETE FROM matchmaking_queue WHERE user_id = ?
leave_matchmaking_queue(queue, user_id) == queue \ QueueEntry(queue, user_id)

\* Candidates without the test on time_control
CandidatesAnyClass(queue, user_entry) ==
    {e \in queue :
        /\ e.user_id # user_entry.user_id
        /\ Abs(e.rating - user_entry.rating) <= RatingRange}

\* Candidates restricted to the rows that joined before user_entry did
CandidatesOlder(queue, user_entry) ==
    {e \in queue :
        /\ e.user_id # user_entry.user_id
        /\ e.time_control = user_entry.time_control
        /\ Abs(e.rating - user_entry.rating) <= RatingRange
        /\ e.joined_at < user_entry.joined_at}

\* the rows the second SELECT of find_match keeps for the entry user_entry
Candidates(queue, user_entry) ==
    {e \in queue :
        /\ e.user_id # user_entry.user_id
        /\ e.time_control = user_entry.time_control
        /\ Abs(e.rating - user_entry.rating) <= RatingRange}

\* find_match with ORDER BY ABS(rating - ?) ASC, joined_at ASC
find_match_closest(queue, user_id) ==
    IF QueueEntry(queue, user_id) = {}
    THEN {}
    ELSE LET user_entry == CHOOSE e \in QueueEntry(queue, user_id) : TRUE
             cand == Candidates(queue, user_entry)
             dist(e) == Abs(e.rating - user_entry.rating)
         IN  {e \in cand : \A f \in cand :
                 \/ dist(e) < dist(f)
                 \/ dist(e) = dist(f) /\ e.joined_at <= f.joined_at}

\* find_match: the rows ORDER BY joined_at ASC LIMIT 1 may return (rows with
\* the same joined_at are in no defined order); empty when it returns None
find_match(queue, user_id) ==
    IF QueueEntry(queue, user_id) = {}
    THEN {}
    ELSE LET user_entry == CHOOSE e \in QueueEntry(queue, user_id) : TRUE
             cand == Candidates(queue, user_entry)
         IN  {e \in cand : \A f \in cand : e.joined_at <= f.joined_at}

\* NewGame with the two colours exchanged
NewGameSwapped(session_id, white_id, black_id, time_control, t, entries, ratings) ==
    [session_id |-> session_id,
     white_player_id |-> black_id,
     black_player_id |-> white_id,
     current_fen |-> StartFen,
     move_history |-> <<>>,
     time_control |-> time_control,
     white_time_remaining |-> InitialClock,
     black_time_remaining |-> InitialClock,
     last_move_time |-> t,
     entries |-> entries,
     created_ratings |-> ratings]

\* the row create_active_game inserts (entries and created_ratings are not
\* columns: they record the queue_id of the two queue rows the session was
\* made from, and white's and black's stored rating at that moment)
NewGame(session_id, white_id, black_id, time_control, t, entries, ratings) ==
    [session_id |-> session_id,
     white_player_id |-> white_id,
     black_player_id |-> black_id,
     current_fen |-> StartFen,
     move_history |-> <<>>,
     time_control |-> time_control,
     white_time_remaining |-> InitialClock,
     black_time_remaining |-> InitialClock,
     last_move_time |-> t,
     entries |-> entries,
     created_ratings |-> ratings]

(* ------------------- server.py: join_matchmaking ---------------------- *)

JoinsInFlight == {h \in Handlers : handler[h].op = "join_matchmaking"}

\* POST /api/matchmaking/join arrives; the request names a registered
\* account (the 400 and 404 answers touch no table and are left out)
JoinRequest(h) ==
    /\ handler[h].pc = "idle"
    /\ next_session + Cardinality(JoinsInFlight) <= MaxSessions
    /\ \E u \in UserIds, tc \in TimeControls :
          handler' = [handler EXCEPT ![h] =
                        [Idle EXCEPT !.op = "join_matchmaking",
                                     !.pc = "get_user",
                                     !.user_id = u, !.time_control = tc]]
    /\ UNCHANGED <<users, matchmaking_queue, active_games, games,
                   next_session, last_queue_id, emitted, now,
                   rooms, accounts,
                   chess_game, local>>

\* user = db.get_user_by_id(user_id)
JoinGetUser(h) ==
    /\ handler[h].op = "join_matchmaking" /\ handler[h].pc = "get_user"
    /\ handler' = [handler EXCEPT ![h].rating = users[handler[h].user_id].rating,
                                  ![h].pc = "join_queue"]
    /\ UNCHANGED <<users, matchmaking_queue, active_games, games,
                   next_session, last_queue_id, emitted, now,
                   rooms, accounts,
                   chess_game, local>>

\* db.join_matchmaking_queue(user_id, user["rating"], time_control)
JoinQueue(h) ==
    LET r == handler[h] IN
    /\ r.op = "join_matchmaking" /\ r.pc = "join_queue"
    /\ matchmaking_queue' =
          join_matchmaking_queue(matchmaking_queue, last_queue_id + 1,
                                 r.user_id, r.rating, r.time_control, now)
    /\ IF QueueEntry(matchmaking_queue, r.user_id) # {}
       THEN /\ handler' = [handler EXCEPT ![h] = Done(h, "Already in queue")]
            /\ UNCHANGED last_queue_id
       ELSE /\ handler' = [handler EXCEPT ![h].queue_id = last_queue_id + 1,
                                          ![h].pc = "find_match"]
            /\ last_queue_id' = last_queue_id + 1
    /\ UNCHANGED <<users, active_games, games, next_session, emitted, now,
                   rooms, accounts,
                   chess_game, local>>

\* opponent = db.find_match(user_id), then the random colour assignment
JoinFindMatch(h) ==
    LET r == handler[h]
        found == find_match(matchmaking_queue, r.user_id) IN
    /\ r.op = "join_matchmaking" /\ r.pc = "find_match"
    /\ IF found = {}
       THEN handler' = [handler EXCEPT ![h] = Done(h, "Waiting for opponent")]
       ELSE \E opponent \in found :
            \E white_id \in {r.user_id, opponent.user_id} :
               handler' = [handler EXCEPT ![h].opponent = opponent.user_id,
                                          ![h].opponent_queue_id = opponent.queue_id,
                                          ![h].white_id = white_id,
                                          ![h].pc = "leave_self"]
    /\ UNCHANGED <<users, matchmaking_queue, active_games, games,
                   next_session, last_queue_id, emitted, now,
                   rooms, accounts,
                   chess_game, local>>

\* db.leave_matchmaking_queue(user_id)
JoinLeaveSelf(h) ==
    LET r == handler[h] IN
    /\ r.op = "join_matchmaking" /\ r.pc = "leave_self"
    /\ matchmaking_queue' = leave_matchmaking_queue(matchmaking_queue, r.user_id)
    /\ handler' = [handler EXCEPT ![h].pc = "leave_opponent"]
    /\ UNCHANGED <<users, active_games, games, next_session, last_queue_id, emitted, now,
                   rooms, accounts,
                   chess_game, local>>

\* db.leave_matchmaking_queue(opponent["user_id"])
JoinLeaveOpponent(h) ==
    LET r == handler[h] IN
    /\ r.op = "join_matchmaking" /\ r.pc = "leave_opponent"
    /\ matchmaking_queue' = leave_matchmaking_queue(matchmaking_queue, r.opponent)
    /\ handler' = [handler EXCEPT ![h].pc = "create_active_game"]
    /\ UNCHANGED <<users, active_games, games, next_session, last_queue_id, emitted, now,
                   rooms, accounts,
                   chess_game, local>>

\* db.create_active_game(session_id, white_id, black_id, time_control) with
\* session_id = secrets.token_urlsafe(16), a token no session had before
JoinCreateGame(h) ==
    LET r == handler[h]
        black_id == IF r.white_id = r.user_id THEN r.opponent ELSE r.user_id IN
    /\ r.op = "join_matchmaking" /\ r.pc = "create_active_game"
    /\ active_games' =
          [s \in Active \cup {next_session} |->
              IF s = next_session
              THEN NewGame(next_session, r.white_id, black_id, r.time_control,
                           now, {r.queue_id, r.opponent_queue_id},
                           <<users[r.white_id].rating, users[black_id].rating>>)
              ELSE active_games[s]]
    /\ next_session' = next_session + 1
    /\ handler' = [handler EXCEPT ![h] =
          [Done(h, "matched") EXCEPT
              !.session_id = next_session,
              !.your_color = IF r.user_id = r.white_id THEN "white" ELSE "black"]]
    /\ UNCHANGED <<users, matchmaking_queue, games, last_queue_id, emitted, now,
                   rooms, accounts,
                   chess_game, local>>

(* ---------------------- database.py: sessions ------------------------- *)

\* update_active_game with the WHERE clause left out
update_active_game_all(table, session_id, fen, move_history, white_time, black_time, t) ==
    [s \in DOMAIN table |->
        [table[s] EXCEPT !.current_fen = fen,
                         !.move_history = move_history,
                         !.white_time_remaining = white_time,
                         !.black_time_remaining = black_time,
                         !.last_move_time = t]]

\* update_active_game with move_history left out of the SET clause
update_active_game_fen_only(table, session_id, fen, move_history, white_time, black_time, t) ==
    [s \in DOMAIN table |->
        IF s = session_id
        THEN [table[s] EXCEPT !.current_fen = fen,
                              !.white_time_remaining = white_time,
                              !.black_time_remaining = black_time,
                              !.last_move_time = t]
        ELSE table[s]]

\* UPDATE active_games SET ... WHERE session_id = ?  (no row: no effect)
update_active_game(table, session_id, fen, move_history, white_time, black_time, t) ==
    [s \in DOMAIN table |->
        IF s = session_id
        THEN [table[s] EXCEPT !.current_fen = fen,
                              !.move_history = move_history,
                              !.white_time_remaining = white_time,
                              !.black_time_remaining = black_time,
                              !.last_move_time = t]
        ELSE table[s]]

\* DELETE FROM active_games WHERE session_id = ?
delete_active_game(table, session_id) ==
    [s \in DOMAIN table \ {session_id} |-> table[s]]

\* UPDATE users SET rating = ? WHERE user_id = ?
update_user_rating(table, user_id, new_rating) ==
    [table EXCEPT ![user_id].rating = new_rating]

\* RecordStats counting a drawn game for the white player only
RecordStatsDrawWhite(table, white_id, black_id, result) ==
    [u \in DOMAIN table |->
        LET row == table[u]
            played == IF u \in {white_id, black_id}
                      THEN [row EXCEPT !.games_played = @ + 1] ELSE row
            won == IF (result = "1-0" /\ u = white_id) \/ (result = "0-1" /\ u = black_id)
                   THEN [played EXCEPT !.games_won = @ + 1] ELSE played
            lost == IF (result = "1-0" /\ u = black_id) \/ (result = "0-1" /\ u = white_id)
                    THEN [won EXCEPT !.games_lost = @ + 1] ELSE won
        IN  IF result = "1/2-1/2" /\ u = white_id
            THEN [lost EXCEPT !.games_drawn = @ + 1] ELSE lost]

\* the counters record_game updates after its INSERT INTO games
RecordStats(table, white_id, black_id, result) ==
    [u \in DOMAIN table |->
        LET row == table[u]
            played == IF u \in {white_id, black_id}
                      THEN [row EXCEPT !.games_played = @ + 1] ELSE row
            won == IF (result = "1-0" /\ u = white_id) \/ (result = "0-1" /\ u = black_id)
                   THEN [played EXCEPT !.games_won = @ + 1] ELSE played
            lost == IF (result = "1-0" /\ u = black_id) \/ (result = "0-1" /\ u = white_id)
                    THEN [won EXCEPT !.games_lost = @ + 1] ELSE won
        IN  IF result = "1/2-1/2" /\ u \in {white_id, black_id}
            THEN [lost EXCEPT !.games_drawn = @ + 1] ELSE lost]

(* --------------------- server.py: handle_make_move -------------------- *)

\* HoldsTurn with the check for black's turn left out
HoldsTurnWhiteOnly(game, user_id) ==
    ~ (game.current_fen.turn = "w" /\ user_id # game.white_player_id)

\* HoldsTurn testing that the sender plays in the game, not whose turn it is
HoldsTurnParticipant(game, user_id) ==
    user_id \in {game.white_player_id, game.black_player_id}

\* whether user_id passes the turn check of handle_make_move on this row
HoldsTurn(game, user_id) ==
    ~ \/ (game.current_fen.turn = "w" /\ user_id # game.white_player_id)
      \/ (game.current_fen.turn = "b" /\ user_id # game.black_player_id)

\* MoveCheck without the test against board.legal_moves
MoveCheckNoLegality(game, user_id, move) ==
    IF ~HoldsTurn(game, user_id) THEN "Not your turn"
    ELSE IF ~ParsesAsUci(move) THEN "exception"
    ELSE "ok"

\* the checks of handle_make_move on its copy of the row, in order: the
\* error it emits, or "ok" when the move goes on to be committed
MoveCheck(game, user_id, move) ==
    IF ~HoldsTurn(game, user_id) THEN "Not your turn"
    ELSE IF ~ParsesAsUci(move) THEN "exception"
    ELSE IF move \notin LegalMoves(game.current_fen) THEN "Illegal move"
    ELSE "ok"

\* Scores with the two decisive results exchanged
ScoresSwapped(result) ==
    IF result = "1-0" THEN <<0, 2>>
    ELSE IF result = "0-1" THEN <<2, 0>> ELSE <<1, 1>>

\* white_score, black_score (doubled) for a result string
Scores(result) ==
    IF result = "1-0" THEN <<2, 0>>
    ELSE IF result = "0-1" THEN <<0, 2>> ELSE <<1, 1>>

\* the two ratings with white's score passed to both calls
RatingsAfterSameScore(white_before, black_before, result) ==
    <<calculate_elo_rating(white_before, black_before, Scores(result)[1]),
      calculate_elo_rating(black_before, white_before, Scores(result)[1])>>

\* the two ratings handle_make_move computes for the finished game
RatingsAfter(white_before, black_before, result) ==
    <<calculate_elo_rating(white_before, black_before, Scores(result)[1]),
      calculate_elo_rating(black_before, white_before, Scores(result)[2])>>

\* the PGN built from the headers and the moves of move_history.split()
Pgn(result, move_history) ==
    [Event |-> "Cyberchess Online Game", Result |-> result, moves |-> move_history]

\* a make_move event arrives with all three fields; session ids are
\* unguessable tokens, so a request names a session that was created at some
\* time (live or ended); user_id is whatever the client sends
MoveRequest(h) ==
    /\ handler[h].pc = "idle"
    /\ \E sid \in 1..(next_session - 1), u \in UserIds, m \in Moves :
          /\ (sid \in Active /\ ~IsGameOver(active_games[sid].current_fen))
                => Len(active_games[sid].move_history) < MaxPly
          /\ handler' = [handler EXCEPT ![h] =
                [Idle EXCEPT !.op = "make_move", !.pc = "get_active_game",
                             !.session_id = sid, !.user_id = u, !.move = m,
                             !.held_turn = (sid \in Active
                                            /\ HoldsTurn(active_games[sid], u)),
                             !.issued_over =
                                 (sid \notin Active
                                  \/ IsGameOver(active_games[sid].current_fen)),
                             !.issued_on = IF sid \in Active
                                           THEN active_games[sid].move_history
                                           ELSE <<>>]]
    /\ UNCHANGED <<users, matchmaking_queue, active_games, games,
                   next_session, last_queue_id, emitted, now,
                   rooms, accounts,
                   chess_game, local>>

\* game = db.get_active_game(session_id), then the checks on that copy:
\* turn, UCI parse, legality; board.push(move) and the new move_history
MoveGetGame(h) ==
    LET r == handler[h] IN
    /\ r.op = "make_move" /\ r.pc = "get_active_game"
    /\ handler' = [handler EXCEPT ![h] =
          IF r.session_id \notin Active
          THEN Done(h, "Game not found")
          ELSE LET game == active_games[r.session_id]
                   error == MoveCheck(game, r.user_id, r.move) IN
               IF error # "ok"
               THEN [Done(h, error) EXCEPT !.game = game]
               ELSE [r EXCEPT !.game = game,
                              !.fen = Push(game.current_fen, r.move),
                              !.move_history = Append(game.move_history, r.move),
                              !.pc = "update_active_game"]]
    /\ UNCHANGED <<users, matchmaking_queue, active_games, games,
                   next_session, last_queue_id, emitted, now,
                   rooms, accounts,
                   chess_game, local>>

\* db.update_active_game(session_id, board.fen(), move_history, clocks)
MoveUpdateGame(h) ==
    LET r == handler[h] IN
    /\ r.op = "make_move" /\ r.pc = "update_active_game"
    /\ active_games' =
          update_active_game(active_games, r.session_id, r.fen, r.move_history,
                             r.game.white_time_remaining,
                             r.game.black_time_remaining, now)
    /\ handler' = [handler EXCEPT ![h].pc = "emit_move_made"]
    /\ UNCHANGED <<users, matchmaking_queue, games, next_session, last_queue_id, emitted, now,
                   rooms, accounts,
                   chess_game, local>>

\* emit("move_made", ..., room=session_id)
MoveEmitMoveMade(h) ==
    LET r == handler[h] IN
    /\ r.op = "make_move" /\ r.pc = "emit_move_made"
    /\ emitted' = [emitted EXCEPT ![r.session_id] =
          Append(@, [name |-> "move_made", move |-> r.move, fen |-> r.fen,
                     game_over |-> IsGameOver(r.fen),
                     result |-> IF IsGameOver(r.fen) THEN BoardResult(r.fen)
                                ELSE "None"])]
    /\ handler' = [handler EXCEPT ![h] =
          IF IsGameOver(r.fen) THEN [r EXCEPT !.pc = "get_white"]
          ELSE Done(h, "move_made")]
    /\ UNCHANGED <<users, matchmaking_queue, active_games, games,
                   next_session, last_queue_id, now, rooms, accounts,
                   chess_game, local>>

\* MoveGetWhite taking the rating white had when the session was created
MoveGetWhiteAtCreation(h) ==
    LET r == handler[h] IN
    /\ r.op = "make_move" /\ r.pc = "get_white"
    /\ handler' = [handler EXCEPT
          ![h].white_before = r.game.created_ratings[1],
          ![h].pc = "get_black"]
    /\ UNCHANGED <<users, matchmaking_queue, active_games, games,
                   next_session, last_queue_id, emitted, now,
                   rooms, accounts,
                   chess_game, local>>

\* white_player = db.get_user_by_id(game["white_player_id"])
MoveGetWhite(h) ==
    LET r == handler[h] IN
    /\ r.op = "make_move" /\ r.pc = "get_white"
    /\ handler' = [handler EXCEPT
          ![h].white_before = users[r.game.white_player_id].rating,
          ![h].pc = "get_black"]
    /\ UNCHANGED <<users, matchmaking_queue, active_games, games,
                   next_session, last_queue_id, emitted, now,
                   rooms, accounts,
                   chess_game, local>>

\* black_player = db.get_user_by_id(game["black_player_id"])
MoveGetBlack(h) ==
    LET r == handler[h] IN
    /\ r.op = "make_move" /\ r.pc = "get_black"
    /\ handler' = [handler EXCEPT
          ![h].black_before = users[r.game.black_player_id].rating,
          ![h].pc = "update_white"]
    /\ UNCHANGED <<users, matchmaking_queue, active_games, games,
                   next_session, last_queue_id, emitted, now,
                   rooms, accounts,
                   chess_game, local>>

\* db.update_user_rating(game["white_player_id"], white_rating_after)
MoveUpdateWhite(h) ==
    LET r == handler[h]
        after == RatingsAfter(r.white_before, r.black_before, BoardResult(r.fen)) IN
    /\ r.op = "make_move" /\ r.pc = "update_white"
    /\ users' = update_user_rating(users, r.game.white_player_id, after[1])
    /\ handler' = [handler EXCEPT ![h].pc = "update_black"]
    /\ UNCHANGED <<matchmaking_queue, active_games, games, next_session, last_queue_id,
                   emitted, now, rooms, accounts,
                   chess_game, local>>

\* db.update_user_rating(game["black_player_id"], black_rating_after)
MoveUpdateBlack(h) ==
    LET r == handler[h]
        after == RatingsAfter(r.white_before, r.black_before, BoardResult(r.fen)) IN
    /\ r.op = "make_move" /\ r.pc = "update_black"
    /\ users' = update_user_rating(users, r.game.black_player_id, after[2])
    /\ handler' = [handler EXCEPT ![h].pc = "record_game"]
    /\ UNCHANGED <<matchmaking_queue, active_games, games, next_session, last_queue_id,
                   emitted, now, rooms, accounts,
                   chess_game, local>>

\* db.record_game(...): the INSERT INTO games and the counters of both users
\* (session and created_ratings are not columns of games: they record which
\* session the row is for and the ratings stored when it was created)
MoveRecordGame(h) ==
    LET r == handler[h]
        result == BoardResult(r.fen)
        after == RatingsAfter(r.white_before, r.black_before, result) IN
    /\ r.op = "make_move" /\ r.pc = "record_game"
    /\ games' = Append(games,
          [white_player_id |-> r.game.white_player_id,
           black_player_id |-> r.game.black_player_id,
           result |-> result,
           pgn |-> Pgn(result, r.move_history),
           white_rating_before |-> r.white_before,
           black_rating_before |-> r.black_before,
           white_rating_after |-> after[1],
           black_rating_after |-> after[2],
           time_control |-> r.game.time_control,
           session |-> r.session_id,
           created_ratings |-> r.game.created_ratings])
    /\ users' = RecordStats(users, r.game.white_player_id,
                            r.game.black_player_id, result)
    /\ handler' = [handler EXCEPT ![h].pc = "delete_active_game"]
    /\ UNCHANGED <<matchmaking_queue, active_games, next_session, last_queue_id, emitted, now,
                   rooms, accounts,
                   chess_game, local>>

\* db.delete_active_game(session_id)
MoveDeleteGame(h) ==
    LET r == handler[h] IN
    /\ r.op = "make_move" /\ r.pc = "delete_active_game"
    /\ active_games' = delete_active_game(active_games, r.session_id)
    /\ handler' = [handler EXCEPT ![h].pc = "emit_ratings_updated"]
    /\ UNCHANGED <<users, matchmaking_queue, games, next_session, last_queue_id, emitted, now,
                   rooms, accounts,
                   chess_game, local>>

\* emit("ratings_updated", ..., room=session_id)
MoveEmitRatings(h) ==
    LET r == handler[h]
        after == RatingsAfter(r.white_before, r.black_before, BoardResult(r.fen)) IN
    /\ r.op = "make_move" /\ r.pc = "emit_ratings_updated"
    /\ emitted' = [emitted EXCEPT ![r.session_id] =
          Append(@, [name |-> "ratings_updated",
                     white_rating_change |-> after[1] - r.white_before,
                     black_rating_change |-> after[2] - r.black_before])]
    /\ handler' = [handler EXCEPT ![h] = Done(h, "ratings_updated")]
    /\ UNCHANGED <<users, matchmaking_queue, active_games, games,
                   next_session, last_queue_id, now, rooms, accounts,
                   chess_game, local>>

\* the steps of handle_make_move that settle a finished game, each a call
\* of the database
SettlementSteps ==
    {"get_white", "get_black", "update_white", "update_black",
     "record_game", "delete_active_game"}

\* the database call the handler is about to make in its settlement raises
\* (sqlite3.OperationalError: the database is locked or cannot be written):
\* the call changes nothing, and the except clause of handle_make_move
\* emits the error to the sender and ends the handler
MoveDatabaseError(h) ==
    LET r == handler[h] IN
    /\ r.op = "make_move" /\ r.pc \in SettlementSteps
    /\ handler' = [handler EXCEPT ![h] = Done(h, "exception")]
    /\ UNCHANGED <<users, matchmaking_queue, active_games, games,
                   next_session, last_queue_id, emitted, now,
                   rooms, accounts,
                   chess_game, local>>

(* ----------------------- server.py: handle_resign --------------------- *)

\* a resign event arrives
ResignRequest(h) ==
    /\ handler[h].pc = "idle"
    /\ \E sid \in 1..(next_session - 1), u \in UserIds :
          handler' = [handler EXCEPT ![h] =
                [Idle EXCEPT !.op = "resign", !.pc = "get_active_game",
                             !.session_id = sid, !.user_id = u]]
    /\ UNCHANGED <<users, matchmaking_queue, active_games, games,
                   next_session, last_queue_id, emitted, now,
                   rooms, accounts,
                   chess_game, local>>

\* game = db.get_active_game(session_id)
ResignGetGame(h) ==
    LET r == handler[h] IN
    /\ r.op = "resign" /\ r.pc = "get_active_game"
    /\ handler' = [handler EXCEPT ![h] =
          IF r.session_id \notin Active
          THEN Done(h, "Game not found")
          ELSE [r EXCEPT !.game = active_games[r.session_id],
                         !.pc = "emit_player_resigned"]]
    /\ UNCHANGED <<users, matchmaking_queue, active_games, games,
                   next_session, last_queue_id, emitted, now,
                   rooms, accounts,
                   chess_game, local>>

\* the result handle_resign announces for the resigning user_id
ResignResult(game, user_id) ==
    IF user_id = game.white_player_id THEN "0-1" ELSE "1-0"

\* emit("player_resigned", ..., room=session_id)
ResignEmit(h) ==
    LET r == handler[h] IN
    /\ r.op = "resign" /\ r.pc = "emit_player_resigned"
    /\ emitted' = [emitted EXCEPT ![r.session_id] =
          Append(@, [name |-> "player_resigned", user_id |-> r.user_id,
                     result |-> ResignResult(r.game, r.user_id)])]
    /\ handler' = [handler EXCEPT ![h].pc = "delete_active_game"]
    /\ UNCHANGED <<users, matchmaking_queue, active_games, games,
                   next_session, last_queue_id, now, rooms, accounts,
                   chess_game, local>>

\* db.delete_active_game(session_id): handle_resign ends here
ResignDeleteGame(h) ==
    LET r == handler[h] IN
    /\ r.op = "resign" /\ r.pc = "delete_active_game"
    /\ active_games' = delete_active_game(active_games, r.session_id)
    /\ handler' = [handler EXCEPT ![h] = Done(h, "player_resigned")]
    /\ UNCHANGED <<users, matchmaking_queue, games, next_session, last_queue_id, emitted, now,
                   rooms, accounts,
                   chess_game, local>>

(* -------------------- server.py: leave_matchmaking -------------------- *)

\* POST /api/matchmaking/leave arrives with a user_id
LeaveRequest(h) ==
    /\ handler[h].pc = "idle"
    /\ \E u \in UserIds :
          handler' = [handler EXCEPT ![h] =
                        [Idle EXCEPT !.op = "leave_matchmaking",
                                     !.pc = "leave_queue", !.user_id = u]]
    /\ UNCHANGED <<users, matchmaking_queue, active_games, games,
                   next_session, last_queue_id, emitted, now,
                   rooms, accounts,
                   chess_game, local>>

\* db.leave_matchmaking_queue(user_id), then {"success": True}
LeaveQueue(h) ==
    LET r == handler[h] IN
    /\ r.op = "leave_matchmaking" /\ r.pc = "leave_queue"
    /\ matchmaking_queue' = leave_matchmaking_queue(matchmaking_queue, r.user_id)
    /\ handler' = [handler EXCEPT ![h] = Done(h, "success")]
    /\ UNCHANGED <<users, active_games, games, next_session, last_queue_id, emitted, now,
                   rooms, accounts,
                   chess_game, local>>

(* ------------- server.py: handle_join_game, handle_leave_game --------- *)

\* leave_room that takes the connection out of every room
leave_room_all(table, room, sid) == [s \in DOMAIN table |-> table[s] \ {sid}]

\* flask_socketio.leave_room(room) for the connection sid
leave_room(table, room, sid) == [table EXCEPT ![room] = @ \ {sid}]

\* flask_socketio.join_room(room) for the connection sid
join_room(table, room, sid) == [table EXCEPT ![room] = @ \cup {sid}]

\* the colour handle_join_game reports to user_id for this row
JoinColor(game, user_id) ==
    IF user_id = game.white_player_id THEN "white"
    ELSE IF user_id = game.black_player_id THEN "black" ELSE "spectator"

\* a join_game event arrives with both fields on some connection, naming a
\* session or a room name that is no session's id
JoinGameRequest(h) ==
    /\ handler[h].pc = "idle"
    /\ \E room \in {0} \cup 1..(next_session - 1), u \in UserIds,
          sid \in Connections :
          /\ Len(emitted[room]) < MaxEvents
          /\ handler' = [handler EXCEPT ![h] =
                [Idle EXCEPT !.op = "join_game", !.pc = "join_room",
                             !.session_id = room, !.user_id = u,
                             !.request_sid = sid]]
    /\ UNCHANGED <<users, matchmaking_queue, active_games, games,
                   next_session, last_queue_id, emitted, now,
                   rooms, accounts,
                   chess_game, local>>

\* join_room(session_id)
JoinGameJoinRoom(h) ==
    LET r == handler[h] IN
    /\ r.op = "join_game" /\ r.pc = "join_room"
    /\ rooms' = join_room(rooms, r.session_id, r.request_sid)
    /\ handler' = [handler EXCEPT ![h].pc = "get_active_game"]
    /\ UNCHANGED <<users, matchmaking_queue, active_games, games,
                   next_session, last_queue_id, emitted, now, accounts,
                   chess_game, local>>

\* game = db.get_active_game(session_id); then game_joined to the sender and
\* player_joined to the room, or the error
JoinGameGetGame(h) ==
    LET r == handler[h] IN
    /\ r.op = "join_game" /\ r.pc = "get_active_game"
    /\ IF r.session_id \in Active
       THEN LET game == active_games[r.session_id]
                color == JoinColor(game, r.user_id) IN
            /\ handler' = [handler EXCEPT ![h] =
                  [Done(h, "game_joined") EXCEPT !.game = game,
                                                 !.your_color = color]]
            /\ emitted' = [emitted EXCEPT ![r.session_id] =
                  Append(@, [name |-> "player_joined", user_id |-> r.user_id,
                             color |-> color])]
       ELSE /\ handler' = [handler EXCEPT ![h] = Done(h, "Game not found")]
            /\ UNCHANGED emitted
    /\ UNCHANGED <<users, matchmaking_queue, active_games, games,
                   next_session, last_queue_id, now, rooms, accounts,
                   chess_game, local>>

\* a leave_game event arrives with a session id on some connection
LeaveGameRequest(h) ==
    /\ handler[h].pc = "idle"
    /\ \E room \in {0} \cup 1..(next_session - 1), u \in UserIds,
          sid \in Connections :
          /\ Len(emitted[room]) < MaxEvents
          /\ handler' = [handler EXCEPT ![h] =
                [Idle EXCEPT !.op = "leave_game", !.pc = "leave_room",
                             !.session_id = room, !.user_id = u,
                             !.request_sid = sid]]
    /\ UNCHANGED <<users, matchmaking_queue, active_games, games,
                   next_session, last_queue_id, emitted, now,
                   rooms, accounts,
                   chess_game, local>>

\* leave_room(session_id), then player_left to the room
LeaveGameLeaveRoom(h) ==
    LET r == handler[h] IN
    /\ r.op = "leave_game" /\ r.pc = "leave_room"
    /\ rooms' = leave_room(rooms, r.session_id, r.request_sid)
    /\ emitted' = [emitted EXCEPT ![r.session_id] =
          Append(@, [name |-> "player_left", user_id |-> r.user_id])]
    /\ handler' = [handler EXCEPT ![h] = Done(h, "player_left")]
    /\ UNCHANGED <<users, matchmaking_queue, active_games, games,
                   next_session, last_queue_id, now, accounts,
                   chess_game, local>>

(* -------------------- server.py: handle_disconnect -------------------- *)

\* the connection of a client drops.  handle_disconnect is given request.sid
\* only; session_id and user_id record which session the client had joined
\* and as whom, issued_over whether that session was terminal at that time
DisconnectRequest(h) ==
    /\ handler[h].pc = "idle"
    /\ \E sid \in 1..(next_session - 1), u \in UserIds :
          handler' = [handler EXCEPT ![h] =
                [Idle EXCEPT !.op = "disconnect", !.pc = "print",
                             !.session_id = sid, !.user_id = u,
                             !.issued_over =
                                 (sid \notin Active
                                  \/ IsGameOver(active_games[sid].current_fen))]]
    /\ UNCHANGED <<users, matchmaking_queue, active_games, games,
                   next_session, last_queue_id, emitted, now,
                   rooms, accounts,
                   chess_game, local>>

\* print(f"Client disconnected: {request.sid}"): all that the handler does
HandleDisconnect(h) ==
    /\ handler[h].op = "disconnect" /\ handler[h].pc = "print"
    /\ handler' = [handler EXCEPT ![h] = Done(h, "")]
    /\ UNCHANGED <<users, matchmaking_queue, active_games, games,
                   next_session, last_queue_id, emitted, now,
                   rooms, accounts,
                   chess_game, local>>

(* --------------------------- specification ---------------------------- *)

Next ==
    \/ Tick
    \/ \E h \in Handlers :
          \/ Return(h)
          \/ JoinRequest(h) \/ JoinGetUser(h) \/ JoinQueue(h)
          \/ JoinFindMatch(h) \/ JoinLeaveSelf(h) \/ JoinLeaveOpponent(h)
          \/ JoinCreateGame(h)
          \/ MoveRequest(h) \/ MoveGetGame(h) \/ MoveUpdateGame(h)
          \/ MoveEmitMoveMade(h) \/ MoveGetWhite(h) \/ MoveGetBlack(h)
          \/ MoveUpdateWhite(h) \/ MoveUpdateBlack(h) \/ MoveRecordGame(h)
          \/ MoveDeleteGame(h) \/ MoveEmitRatings(h)
          \/ ResignRequest(h) \/ ResignGetGame(h) \/ ResignEmit(h)
          \/ ResignDeleteGame(h)

Spec == Init /\ [][Next]_vars

\* Matchmaking alone: concurrent join requests and the clock.
NextMatch ==
    \/ Tick
    \/ \E h \in Handlers :
          \/ Return(h)
          \/ JoinRequest(h) \/ JoinGetUser(h) \/ JoinQueue(h)
          \/ JoinFindMatch(h) \/ JoinLeaveSelf(h) \/ JoinLeaveOpponent(h)
          \/ JoinCreateGame(h)

SpecMatch == Init /\ [][NextMatch]_vars

\* a join request served while no other request is being handled, for the
\* sessions of SpecPlay
JoinRequestAlone(h) ==
    /\ \A g \in Handlers : handler[g].pc = "idle"
    /\ next_session <= PlaySessions
    /\ JoinRequest(h)

\* game events arrive once the matchmaking requests have been answered
PlayMoveRequest(h) == JoinsInFlight = {} /\ MoveRequest(h)

PlayResignRequest(h) == JoinsInFlight = {} /\ ResignRequest(h)

\* Sessions created by join requests served one at a time, then concurrent
\* make_move and resign handlers in every interleaving.
NextPlay ==
    \E h \in Handlers :
       \/ Return(h)
       \/ JoinRequestAlone(h) \/ JoinGetUser(h) \/ JoinQueue(h)
       \/ JoinFindMatch(h) \/ JoinLeaveSelf(h) \/ JoinLeaveOpponent(h)
       \/ JoinCreateGame(h)
       \/ PlayMoveRequest(h) \/ MoveGetGame(h) \/ MoveUpdateGame(h)
       \/ MoveEmitMoveMade(h) \/ MoveGetWhite(h) \/ MoveGetBlack(h)
       \/ MoveUpdateWhite(h) \/ MoveUpdateBlack(h) \/ MoveRecordGame(h)
       \/ MoveDeleteGame(h) \/ MoveEmitRatings(h)
       \/ PlayResignRequest(h) \/ ResignGetGame(h) \/ ResignEmit(h)
       \/ ResignDeleteGame(h)

SpecPlay == Init /\ [][NextPlay]_vars

\* no request is being handled
Alone == \A g \in Handlers : handler[g].pc = "idle"

SeqJoinRequest(h) == Alone /\ JoinRequest(h)

SeqMoveRequest(h) == Alone /\ MoveRequest(h)

SeqResignRequest(h) == Alone /\ ResignRequest(h)

SeqDisconnectRequest(h) == Alone /\ DisconnectRequest(h)

\* the time of one full clock budget passes with no request arriving
Wait ==
    /\ Alone
    /\ now < InitialClock
    /\ now' = now + InitialClock
    /\ UNCHANGED <<users, matchmaking_queue, active_games, games,
                   next_session, last_queue_id, emitted, handler,
                   rooms, accounts,
                   chess_game, local>>

\* Every request is served to its end before the next one arrives: joins,
\* moves, resignations, dropped connections, and long pauses between them.
NextSeq ==
    \/ Wait
    \/ \E h \in Handlers :
          \/ Return(h)
          \/ SeqJoinRequest(h) \/ JoinGetUser(h) \/ JoinQueue(h)
          \/ JoinFindMatch(h) \/ JoinLeaveSelf(h) \/ JoinLeaveOpponent(h)
          \/ JoinCreateGame(h)
          \/ SeqMoveRequest(h) \/ MoveGetGame(h) \/ MoveUpdateGame(h)
          \/ MoveEmitMoveMade(h) \/ MoveGetWhite(h) \/ MoveGetBlack(h)
          \/ MoveUpdateWhite(h) \/ MoveUpdateBlack(h) \/ MoveRecordGame(h)
          \/ MoveDeleteGame(h) \/ MoveEmitRatings(h)
          \/ SeqResignRequest(h) \/ ResignGetGame(h) \/ ResignEmit(h)
          \/ ResignDeleteGame(h)
          \/ SeqDisconnectRequest(h) \/ HandleDisconnect(h)

SpecSeq == Init /\ [][NextSeq]_vars

\* a join request while fewer than MaxEntries queue rows have been inserted
QueueJoinRequest(h) ==
    /\ last_queue_id + Cardinality(JoinsInFlight) < MaxEntries
    /\ JoinRequest(h)

\* The matchmaking endpoints: concurrent join and leave requests.
NextQueue ==
    \/ Tick
    \/ \E h \in Handlers :
          \/ Return(h)
          \/ QueueJoinRequest(h) \/ JoinGetUser(h) \/ JoinQueue(h)
          \/ JoinFindMatch(h) \/ JoinLeaveSelf(h) \/ JoinLeaveOpponent(h)
          \/ JoinCreateGame(h)
          \/ LeaveRequest(h) \/ LeaveQueue(h)

SpecQueue == Init /\ [][NextQueue]_vars

\* accounts with the ratings FindRatings, nothing queued or played yet
InitFind ==
    /\ users = [u \in UserIds |->
                  [rating |-> FindRatings[((u - 1) % Len(FindRatings)) + 1],
                   games_played |-> 0, games_won |-> 0,
                   games_lost |-> 0, games_drawn |-> 0]]
    /\ matchmaking_queue = {}
    /\ active_games = <<>>
    /\ games = <<>>
    /\ next_session = 1
    /\ last_queue_id = 0
    /\ emitted = [s \in RoomIds |-> <<>>]
    /\ now = 0
    /\ handler = [h \in Handlers |-> Idle]
    /\ rooms = [s \in RoomIds |-> {}]
    /\ accounts = Registered
    /\ chess_game = NewChessGame
    /\ local = LocalIdle

\* a join request for any of the time controls FindClasses, while no other
\* join request is being handled
JoinRequestClass(h) ==
    /\ handler[h].pc = "idle"
    /\ JoinsInFlight = {}
    /\ next_session <= PlaySessions
    /\ last_queue_id < MaxEntries
    /\ \E u \in UserIds, tc \in FindClasses :
          handler' = [handler EXCEPT ![h] =
                        [Idle EXCEPT !.op = "join_matchmaking",
                                     !.pc = "get_user",
                                     !.user_id = u, !.time_control = tc]]
    /\ UNCHANGED <<users, matchmaking_queue, active_games, games,
                   next_session, last_queue_id, emitted, now,
                   rooms, accounts,
                   chess_game, local>>

\* the account whose join request is being handled asks to leave the queue
CancelRequest(h) ==
    /\ LeaveRequest(h)
    /\ \E g \in JoinsInFlight : handler'[h].user_id = handler[g].user_id

\* find_match on queues of mixed ratings and time controls: join requests
\* one at a time, each of which its sender may cancel at any moment.
NextFind ==
    \/ Tick
    \/ \E h \in Handlers :
          \/ Return(h)
          \/ JoinRequestClass(h) \/ JoinGetUser(h) \/ JoinQueue(h)
          \/ JoinFindMatch(h) \/ JoinLeaveSelf(h) \/ JoinLeaveOpponent(h)
          \/ JoinCreateGame(h)
          \/ CancelRequest(h) \/ LeaveQueue(h)

SpecFind == InitFind /\ [][NextFind]_vars

\* a join request served alone while fewer than PlaySessions sessions exist
FailJoinRequest(h) == next_session <= PlaySessions /\ SeqJoinRequest(h)

\* Requests served one at a time, with database calls of the settlement
\* that may fail.
NextFail ==
    \E h \in Handlers :
       \/ Return(h)
       \/ FailJoinRequest(h) \/ JoinGetUser(h) \/ JoinQueue(h)
       \/ JoinFindMatch(h) \/ JoinLeaveSelf(h) \/ JoinLeaveOpponent(h)
       \/ JoinCreateGame(h)
       \/ SeqMoveRequest(h) \/ MoveGetGame(h) \/ MoveUpdateGame(h)
       \/ MoveEmitMoveMade(h) \/ MoveGetWhite(h) \/ MoveGetBlack(h)
       \/ MoveUpdateWhite(h) \/ MoveUpdateBlack(h) \/ MoveRecordGame(h)
       \/ MoveDeleteGame(h) \/ MoveEmitRatings(h)
       \/ MoveDatabaseError(h)
       \/ SeqResignRequest(h) \/ ResignGetGame(h) \/ ResignEmit(h)
       \/ ResignDeleteGame(h)

SpecFail == Init /\ [][NextFail]_vars

SeqJoinGameRequest(h) == Alone /\ JoinGameRequest(h)

SeqLeaveGameRequest(h) == Alone /\ LeaveGameRequest(h)

\* Rooms: sessions created and resigned, and join_game and leave_game
\* events, each request served to its end before the next arrives.
NextRoom ==
    \E h \in Handlers :
       \/ Return(h)
       \/ FailJoinRequest(h) \/ JoinGetUser(h) \/ JoinQueue(h)
       \/ JoinFindMatch(h) \/ JoinLeaveSelf(h) \/ JoinLeaveOpponent(h)
       \/ JoinCreateGame(h)
       \/ SeqResignRequest(h) \/ ResignGetGame(h) \/ ResignEmit(h)
       \/ ResignDeleteGame(h)
       \/ SeqJoinGameRequest(h) \/ JoinGameJoinRoom(h) \/ JoinGameGetGame(h)
       \/ SeqLeaveGameRequest(h) \/ LeaveGameLeaveRoom(h)

SpecRoom == Init /\ [][NextRoom]_vars

(* ------------------------- rating settlement -------------------------- *)

\* ratings the two participants of a finished game can have: the starting
\* rating, the two of the test, and pairs on either side of a step of
\* EloSteps (10 | 11 and 719 | 720 points apart)
EloRatings == {0, 481, 1189, 1190, 1200, 1211, 1400, 1919, 1920}

\* board.result() of a finished game
Results == {"1-0", "0-1", "1/2-1/2"}

\* a game ends with result `result` between a white player and a black
\* player whose stored ratings are white_before and black_before
EloRequest(h) ==
    /\ handler[h].pc = "idle"
    /\ \E w \in EloRatings, b \in EloRatings, result \in Results :
          handler' = [handler EXCEPT ![h] =
              [Idle EXCEPT !.op = "settle", !.pc = "white_rating",
                           !.white_before = w, !.black_before = b,
                           !.result = result]]
    /\ UNCHANGED <<users, matchmaking_queue, active_games, games,
                   next_session, last_queue_id, emitted, now,
                   rooms, accounts,
                   chess_game, local>>

\* white_rating_after = db.calculate_elo_rating(white_rating_before,
\*                          black_rating_before, white_score)
EloWhite(h) ==
    LET r == handler[h] IN
    /\ r.op = "settle" /\ r.pc = "white_rating"
    /\ handler' = [handler EXCEPT
          ![h].white_after =
              RatingsAfter(r.white_before, r.black_before, r.result)[1],
          ![h].pc = "black_rating"]
    /\ UNCHANGED <<users, matchmaking_queue, active_games, games,
                   next_session, last_queue_id, emitted, now,
                   rooms, accounts,
                   chess_game, local>>

\* black_rating_after = db.calculate_elo_rating(black_rating_before,
\*                          white_rating_before, black_score)
EloBlack(h) ==
    LET r == handler[h] IN
    /\ r.op = "settle" /\ r.pc = "black_rating"
    /\ handler' = [handler EXCEPT
          ![h] = [Done(h, "rated") EXCEPT
                    !.black_after =
                        RatingsAfter(r.white_before, r.black_before,
                                     r.result)[2]]]
    /\ UNCHANGED <<users, matchmaking_queue, active_games, games,
                   next_session, last_queue_id, emitted, now,
                   rooms, accounts,
                   chess_game, local>>

\* Rating settlement: the two calls of calculate_elo_rating for a finished
\* game, for every pair of EloRatings and every result, by two threads.
NextElo ==
    \E h \in Handlers :
       \/ Return(h)
       \/ EloRequest(h) \/ EloWhite(h) \/ EloBlack(h)

SpecElo == Init /\ [][NextElo]_vars

(* ------------------------------ accounts ------------------------------ *)

\* usernames, passwords and email addresses a request can carry; 0 stands
\* for a missing field, and for email None
NumNames == 2
NumPasswords == 2
NumEmails == 1

Usernames == 1..NumNames
Passwords == 1..NumPasswords
Emails == 0..NumEmails

\* username TEXT UNIQUE NOT NULL
UsernameTaken(table, username) ==
    \E u \in DOMAIN table : table[u].username = username

\* email TEXT UNIQUE (NULLs never collide)
EmailTaken(table, email) ==
    email # 0 /\ \E u \in DOMAIN table : table[u].email = email

\* the INSERT of create_user raises sqlite3.IntegrityError
IntegrityError(table, username, email) ==
    UsernameTaken(table, username) \/ EmailTaken(table, email)

\* create_user as INSERT OR REPLACE: the row that holds the username or the
\* email is rewritten with the new password and email
create_user_replace(table, username, password, email) ==
    IF IntegrityError(table, username, email)
    THEN [u \in DOMAIN table |->
            IF table[u].username = username
               \/ (email # 0 /\ table[u].email = email)
            THEN [username |-> username,
                  password_hash |-> hash_password(password),
                  email |-> email, last_login |-> -1]
            ELSE table[u]]
    ELSE [u \in DOMAIN table \cup {Cardinality(DOMAIN table) + 1} |->
            IF u \in DOMAIN table THEN table[u]
            ELSE [username |-> username,
                  password_hash |-> hash_password(password),
                  email |-> email, last_login |-> -1]]

\* the credential columns after create_user(username, password, email):
\* unchanged when the INSERT fails, else one more row under the next
\* user_id (rows are never deleted)
create_user(table, username, password, email) ==
    IF IntegrityError(table, username, email) THEN table
    ELSE [u \in DOMAIN table \cup {Cardinality(DOMAIN table) + 1} |->
            IF u \in DOMAIN table THEN table[u]
            ELSE [username |-> username,
                  password_hash |-> hash_password(password),
                  email |-> email, last_login |-> -1]]

\* what create_user returns: cursor.lastrowid, or None (0)
CreatedUserId(table, username, email) ==
    IF IntegrityError(table, username, email) THEN 0
    ELSE Cardinality(DOMAIN table) + 1

\* the other columns of a new row: rating DEFAULT 1200, counters DEFAULT 0
NewUser ==
    [rating |-> 1200, games_played |-> 0, games_won |-> 0,
     games_lost |-> 0, games_drawn |-> 0]

\* SELECT * FROM users WHERE username = ? AND password_hash = ?: the
\* user_id of the row fetched, or 0 when there is none
SelectUser(table, username, password) ==
    LET rows == {u \in DOMAIN table :
                    /\ table[u].username = username
                    /\ table[u].password_hash = hash_password(password)}
    IN  IF rows = {} THEN 0 ELSE CHOOSE u \in rows : TRUE

\* POST /api/register: a request without username or password is answered
\* 400 at once
RegisterRequest(h) ==
    /\ handler[h].pc = "idle"
    /\ \E username \in {0} \cup Usernames, password \in {0} \cup Passwords,
          email \in Emails :
          LET r == [Idle EXCEPT !.op = "register", !.username = username,
                                !.password = password, !.email = email]
          IN  handler' = [handler EXCEPT ![h] =
                 IF username = 0 \/ password = 0
                 THEN [r EXCEPT !.pc = "done", !.reply = "required"]
                 ELSE [r EXCEPT !.pc = "create_user"]]
    /\ UNCHANGED <<users, matchmaking_queue, active_games, games,
                   next_session, last_queue_id, emitted, now,
                   rooms, accounts,
                   chess_game, local>>

\* user_id = db.create_user(username, password, email), and the reply
RegisterCreateUser(h) ==
    LET r == handler[h]
        user_id == CreatedUserId(accounts, r.username, r.email) IN
    /\ r.op = "register" /\ r.pc = "create_user"
    /\ accounts' = create_user(accounts, r.username, r.password, r.email)
    /\ users' = IF user_id = 0 THEN users
                ELSE [u \in DOMAIN users \cup {user_id} |->
                        IF u = user_id THEN NewUser ELSE users[u]]
    /\ handler' = [handler EXCEPT ![h] =
          [Done(h, IF user_id = 0 THEN "exists" ELSE "success")
             EXCEPT !.user_id = user_id]]
    /\ UNCHANGED <<matchmaking_queue, active_games, games,
                   next_session, last_queue_id, emitted, now, rooms,
                   chess_game, local>>

\* POST /api/login
LoginRequest(h) ==
    /\ handler[h].pc = "idle"
    /\ \E username \in {0} \cup Usernames, password \in {0} \cup Passwords :
          LET r == [Idle EXCEPT !.op = "login", !.username = username,
                                !.password = password]
          IN  handler' = [handler EXCEPT ![h] =
                 IF username = 0 \/ password = 0
                 THEN [r EXCEPT !.pc = "done", !.reply = "required"]
                 ELSE [r EXCEPT !.pc = "select_user"]]
    /\ UNCHANGED <<users, matchmaking_queue, active_games, games,
                   next_session, last_queue_id, emitted, now,
                   rooms, accounts,
                   chess_game, local>>

\* authenticate_user: the SELECT and fetchone; without a row it returns None
\* and login answers 401
LoginSelect(h) ==
    LET r == handler[h]
        user_id == SelectUser(accounts, r.username, r.password) IN
    /\ r.op = "login" /\ r.pc = "select_user"
    /\ handler' = [handler EXCEPT ![h] =
          IF user_id = 0 THEN Done(h, "invalid")
          ELSE [r EXCEPT !.user_id = user_id,
                         !.rating = users[user_id].rating,
                         !.pc = "update_last_login"]]
    /\ UNCHANGED <<users, matchmaking_queue, active_games, games,
                   next_session, last_queue_id, emitted, now,
                   rooms, accounts,
                   chess_game, local>>

\* authenticate_user: UPDATE users SET last_login = CURRENT_TIMESTAMP WHERE
\* user_id = ?, and the reply built from the row fetched
LoginUpdateLastLogin(h) ==
    LET r == handler[h] IN
    /\ r.op = "login" /\ r.pc = "update_last_login"
    /\ accounts' = [accounts EXCEPT ![r.user_id].last_login = now]
    /\ handler' = [handler EXCEPT ![h] = Done(h, "success")]
    /\ UNCHANGED <<users, matchmaking_queue, active_games, games,
                   next_session, last_queue_id, emitted, now, rooms,
                   chess_game, local>>

\* a database without accounts
InitAuth ==
    /\ users = <<>>
    /\ matchmaking_queue = {}
    /\ active_games = <<>>
    /\ games = <<>>
    /\ next_session = 1
    /\ last_queue_id = 0
    /\ emitted = [s \in RoomIds |-> <<>>]
    /\ now = 0
    /\ handler = [h \in Handlers |-> Idle]
    /\ rooms = [s \in RoomIds |-> {}]
    /\ accounts = <<>>
    /\ chess_game = NewChessGame
    /\ local = LocalIdle

\* Accounts: registrations and logins by concurrent threads on a database
\* that starts without accounts.
NextAuth ==
    \/ Tick
    \/ \E h \in Handlers :
          \/ Return(h)
          \/ RegisterRequest(h) \/ RegisterCreateUser(h)
          \/ LoginRequest(h) \/ LoginSelect(h) \/ LoginUpdateLastLogin(h)

SpecAuth == InitAuth /\ [][NextAuth]_vars

(* ---------------------------- record_game ----------------------------- *)

\* the number of games recorded in one run
MaxGames == 3

\* the result strings a caller can pass: those of a finished game, and "*"
RecordResults == Results \cup {"*"}

RecordsInFlight == {h \in Handlers : handler[h].op = "record_game"}

\* a caller is about to record a game: white_id and opponent are the
\* white_player_id and black_player_id it passes (any two accounts, the same
\* one twice included), result the result string
RecordRequest(h) ==
    /\ handler[h].pc = "idle"
    /\ Len(games) + Cardinality(RecordsInFlight) < MaxGames
    /\ \E w \in UserIds, b \in UserIds, result \in RecordResults :
          handler' = [handler EXCEPT ![h] =
              [Idle EXCEPT !.op = "record_game", !.pc = "record_game",
                           !.white_id = w, !.opponent = b,
                           !.result = result,
                           !.white_before = users[w].rating,
                           !.black_before = users[b].rating]]
    /\ UNCHANGED <<users, matchmaking_queue, active_games, games,
                   next_session, last_queue_id, emitted, now,
                   rooms, accounts,
                   chess_game, local>>

\* db.record_game(white, black, result, pgn, ratings, time_control): the
\* INSERT INTO games, the UPDATEs of the counters, and the commit
RecordGame(h) ==
    LET r == handler[h]
        after == RatingsAfter(r.white_before, r.black_before, r.result) IN
    /\ r.op = "record_game" /\ r.pc = "record_game"
    /\ games' = Append(games,
          [white_player_id |-> r.white_id,
           black_player_id |-> r.opponent,
           result |-> r.result,
           pgn |-> Pgn(r.result, <<>>),
           white_rating_before |-> r.white_before,
           black_rating_before |-> r.black_before,
           white_rating_after |-> after[1],
           black_rating_after |-> after[2],
           time_control |-> "blitz",
           session |-> 0,
           created_ratings |-> <<r.white_before, r.black_before>>])
    /\ users' = RecordStats(users, r.white_id, r.opponent, r.result)
    /\ handler' = [handler EXCEPT ![h] = Done(h, "recorded")]
    /\ UNCHANGED <<matchmaking_queue, active_games, next_session,
                   last_queue_id, emitted, now, rooms, accounts,
                   chess_game, local>>

\* Recording: up to MaxGames calls of record_game by two threads, for any
\* two accounts and any result string.
NextRecord ==
    \E h \in Handlers :
       \/ Return(h)
       \/ RecordRequest(h) \/ RecordGame(h)

SpecRecord == Init /\ [][NextRecord]_vars

(* ------------------------ game_modes.py: clocks ----------------------- *)

\* minutes and increment a game is given, seconds a move can take, and the
\* number of moves of a local game and of method calls on a ChessGame
MaxMinutes == 1
MaxIncrement == 1
MaxLocalPly == 3
MaxCalls == 3

Minutes == 0..MaxMinutes
Increments == 0..MaxIncrement
TimeUsed == {0, 1, 59, 60, 61}
Colors == {"w", "b"}

\* enable_time_control(minutes, increment_seconds)
enable_time_control(g, minutes, increment_seconds) ==
    [g EXCEPT !.time_controls = [base |-> minutes * 60,
                                 increment |-> increment_seconds],
              !.white_time = minutes * 60,
              !.black_time = minutes * 60]

\* update_time that takes the time used off the clock and adds no increment
update_time_no_increment(g, color, time_used) ==
    IF g.time_controls = None THEN g
    ELSE IF color = "w"
    THEN [g EXCEPT !.white_time = @ - time_used]
    ELSE [g EXCEPT !.black_time = @ - time_used]

\* update_time(color, time_used)
update_time(g, color, time_used) ==
    IF g.time_controls = None THEN g
    ELSE IF color = "w"
    THEN [g EXCEPT !.white_time = (@ - time_used) + g.time_controls.increment]
    ELSE [g EXCEPT !.black_time = (@ - time_used) + g.time_controls.increment]

\* get_remaining_time(color)
get_remaining_time(g, color) ==
    IF g.time_controls = None THEN None
    ELSE IF color = "w" THEN g.white_time ELSE g.black_time

\* is_time_out that lets a clock at exactly zero go on
is_time_out_below_zero(g, color) ==
    IF g.time_controls = None THEN FALSE
    ELSE get_remaining_time(g, color) < 0

\* is_time_out(color); "time_remaining is not None" holds where it is
\* evaluated, get_remaining_time returning None only without time control
is_time_out(g, color) ==
    IF g.time_controls = None THEN FALSE
    ELSE get_remaining_time(g, color) <= 0

\* make_move(move): board.push(move) and move_history.append(san_move)
make_move(g, move) ==
    [g EXCEPT !.board = Push(@, move), !.move_history = Append(@, move)]

\* test_time_controls: game.enable_time_control(minutes, increment)
ClockEnable ==
    /\ local.pc = "setup" /\ local.calls < MaxCalls
    /\ \E minutes \in Minutes, increment \in Increments :
          chess_game' = enable_time_control(chess_game, minutes, increment)
    /\ local' = [local EXCEPT !.calls = @ + 1,
                              !.call = "enable_time_control",
                              !.color = "", !.time_used = 0]
    /\ UNCHANGED <<users, matchmaking_queue, active_games, games,
                   next_session, last_queue_id, emitted, now, handler,
                   rooms, accounts>>

\* test_time_controls: game.update_time(color, time_used)
ClockUpdateTime ==
    /\ local.pc = "setup" /\ local.calls < MaxCalls
    /\ \E color \in Colors, time_used \in TimeUsed :
          /\ chess_game' = update_time(chess_game, color, time_used)
          /\ local' = [local EXCEPT !.calls = @ + 1, !.call = "update_time",
                                    !.color = color, !.time_used = time_used]
    /\ UNCHANGED <<users, matchmaking_queue, active_games, games,
                   next_session, last_queue_id, emitted, now, handler,
                   rooms, accounts>>

\* A ChessGame object and up to MaxCalls calls of enable_time_control and
\* update_time on it, in any order.
NextClock == ClockEnable \/ ClockUpdateTime

SpecClock == Init /\ [][NextClock]_vars

(* ------------------ game_modes.py: PlayerVsPlayerGame ----------------- *)

\* play.py: the game is started without time control, or after
\* game.enable_time_control(minutes, increment); then game.play()
LocalSetup ==
    /\ local.pc = "setup"
    /\ \/ chess_game' = chess_game
       \/ \E minutes \in Minutes, increment \in Increments :
             chess_game' = enable_time_control(chess_game, minutes, increment)
    /\ local' = [local EXCEPT !.pc = "loop"]
    /\ UNCHANGED <<users, matchmaking_queue, active_games, games,
                   next_session, last_queue_id, emitted, now, handler,
                   rooms, accounts>>

\* play: while not self.is_game_over(), then the call of get_player_move
LocalLoop ==
    /\ local.pc = "loop"
    /\ local' = [local EXCEPT !.pc = IF IsGameOver(chess_game.board)
                                     THEN "game_over" ELSE "turn"]
    /\ UNCHANGED <<users, matchmaking_queue, active_games, games,
                   next_session, last_queue_id, emitted, now, handler,
                   rooms, accounts, chess_game>>

\* get_player_move: the check for time out at the head of its loop; on time
\* out it returns None, and play sets time_forfeit and leaves its loop
LocalTimeOutCheck ==
    /\ local.pc = "turn"
    /\ local' = IF is_time_out(chess_game, chess_game.board.turn)
                THEN [local EXCEPT !.time_forfeit = TRUE, !.pc = "game_over"]
                ELSE [local EXCEPT !.pc = "input"]
    /\ UNCHANGED <<users, matchmaking_queue, active_games, games,
                   next_session, last_queue_id, emitted, now, handler,
                   rooms, accounts, chess_game>>

\* get_player_move: the player enters a move time_used seconds after the
\* turn began. A string that is no UCI move raises and one that is no legal
\* move is refused: the loop starts again. A legal move is returned after
\* update_time, and play records it with make_move.
LocalEnterMove ==
    /\ local.pc = "input"
    /\ \E move \in Moves, time_used \in TimeUsed :
          IF ParsesAsUci(move) /\ move \in LegalMoves(chess_game.board)
          THEN /\ move = "quiet" => Len(chess_game.move_history) < MaxLocalPly
               /\ chess_game' =
                     make_move(update_time(chess_game, chess_game.board.turn,
                                           time_used), move)
               /\ local' = [local EXCEPT !.pc = "loop", !.call = "make_move",
                                         !.color = chess_game.board.turn,
                                         !.move = move,
                                         !.time_used = time_used]
          ELSE /\ chess_game' = chess_game
               /\ local' = [local EXCEPT !.pc = "turn", !.call = "",
                                         !.color = chess_game.board.turn,
                                         !.move = move,
                                         !.time_used = time_used]
    /\ UNCHANGED <<users, matchmaking_queue, active_games, games,
                   next_session, last_queue_id, emitted, now, handler,
                   rooms, accounts>>

\* play, after its loop: the winner on time is the player who is not to
\* move, otherwise the result is that of the board
LocalGameOver ==
    /\ local.pc = "game_over"
    /\ local' = IF local.time_forfeit
                THEN [local EXCEPT
                        !.winner = IF chess_game.board.turn = "w"
                                   THEN "Player 2" ELSE "Player 1",
                        !.pc = "saved"]
                ELSE [local EXCEPT !.result = BoardResult(chess_game.board),
                                   !.pc = "saved"]
    /\ UNCHANGED <<users, matchmaking_queue, active_games, games,
                   next_session, last_queue_id, emitted, now, handler,
                   rooms, accounts, chess_game>>

\* A local player-vs-player game, with or without time control, from the
\* setup of play.py to the end of play().
NextLocal ==
    \/ LocalSetup \/ LocalLoop \/ LocalTimeOutCheck
    \/ LocalEnterMove \/ LocalGameOver

SpecLocal == Init /\ [][NextLocal]_vars

(* ============================== claims ================================ *)

\* the database tables and the broadcast events are as before the step
DbUnchanged ==
    UNCHANGED <<users, matchmaking_queue, active_games, games, next_session,
                last_queue_id, emitted>>

IsPrefix(s, t) == Len(s) <= Len(t) /\ SubSeq(t, 1, Len(s)) = s

\* the participant whose turn it is in the position of this row
TurnHolder(game) ==
    IF game.current_fen.turn = "w" THEN game.white_player_id
    ELSE game.black_player_id

\* handler h has validated its move and is committing or has committed it
Accepted(h) ==
    /\ handler[h].op = "make_move"
    /\ \/ handler[h].pc \notin {"idle", "get_active_game", "done"}
       \/ handler[h].pc = "done"
          /\ handler[h].reply \in {"move_made", "ratings_updated"}

\* handler h has answered its make_move request with an error
Rejected(h) ==
    /\ handler[h].op = "make_move" /\ handler[h].pc = "done"
    /\ handler[h].reply \notin {"move_made", "ratings_updated"}

\* handler h takes the step that reads the session row and checks the move
ChecksMove(h) ==
    /\ handler[h].op = "make_move" /\ handler[h].pc = "get_active_game"
    /\ handler'[h].pc # "get_active_game"

\* handlers g and h serve make_move requests for one session that arrived
\* while the session was in the same state with the game still running, g's
\* sender holding the turn with a legal move and h's sender not holding it
IssuedTogether(g, h) ==
    /\ g # h
    /\ handler[g].op = "make_move" /\ handler[h].op = "make_move"
    /\ handler[g].session_id = handler[h].session_id
    /\ handler[g].issued_on = handler[h].issued_on
    /\ ~handler[g].issued_over /\ ~handler[h].issued_over
    /\ handler[g].held_turn /\ ~handler[h].held_turn
    /\ handler[g].move \in {"quiet", "mate", "stale"}

RECURSIVE Replay(_)
\* the position reached from the start position by the moves of a log
Replay(moves) ==
    IF moves = <<>> THEN StartFen
    ELSE Push(Replay(SubSeq(moves, 1, Len(moves) - 1)), moves[Len(moves)])

\* the rows of games written for a session
RecordsOf(sid) == {i \in DOMAIN games : games[i].session = sid}

(* C1: every commit of a make_move handler (its update_active_game) and     *)
(* every termination by a resign handler (its delete_active_game) acts on   *)
(* the session row exactly as that handler read and validated it, so no     *)
(* commit overwrites a transition that another handler committed meanwhile. *)
C1_CommitOnValidatedState ==
    [][\A h \in Handlers :
         (\/ /\ handler[h].op = "make_move"
             /\ handler[h].pc = "update_active_game"
             /\ handler'[h].pc = "emit_move_made"
          \/ /\ handler[h].op = "resign"
             /\ handler[h].pc = "delete_active_game"
             /\ handler'[h].pc = "done")
         => /\ handler[h].session_id \in Active
            /\ active_games[handler[h].session_id] = handler[h].game]_vars

(* C2 as claimed: of two make_move requests for one session that arrive in  *)
(* the same session state, one from the turn holder (a legal move) and one  *)
(* from an actor not holding the turn, exactly one is accepted and the      *)
(* other rejected, once both have been decided.                             *)
C2_OneAcceptedOneRejected ==
    \A g, h \in Handlers :
        (/\ IssuedTogether(g, h)
         /\ Accepted(g) \/ Rejected(g)
         /\ Accepted(h) \/ Rejected(h))
        => (Accepted(g) /\ Rejected(h))

(* C2 as amended: a make_move is accepted only from the participant who     *)
(* holds the turn in the session row its handler read, so two requests from *)
(* different senders are never both accepted against the same position, and *)
(* the request of the actor who did not hold the turn is accepted only if   *)
(* its handler read a session row that is no longer the one the request     *)
(* arrived on.                                                              *)
C2_AcceptedOnlyOnOwnTurn ==
    /\ \A h \in Handlers :
          Accepted(h) => handler[h].user_id = TurnHolder(handler[h].game)
    /\ \A g, h \in Handlers :
          (/\ g # h /\ Accepted(g) /\ Accepted(h)
           /\ handler[g].session_id = handler[h].session_id
           /\ handler[g].user_id # handler[h].user_id)
          => handler[g].game.current_fen # handler[h].game.current_fen
    /\ \A g, h \in Handlers :
          (IssuedTogether(g, h) /\ Accepted(h))
          => handler[h].game.move_history # handler[h].issued_on

\* two requests that arrived together, the turn holder's accepted and the
\* other participant's rejected
C2_Witness ==
    \E g, h \in Handlers :
        /\ IssuedTogether(g, h)
        /\ Accepted(g)
        /\ Rejected(h) /\ handler[h].reply = "Not your turn"
        /\ handler[h].user_id = handler[h].game.black_player_id

(* C3: no queue entry is matched twice: two sessions created by matchmaking *)
(* never share a queue entry (queue_id) among the entries they were made    *)
(* from.                                                                    *)
C3_NoDoubleMatch ==
    \A s, t \in Active :
        s # t => active_games[s].entries \cap active_games[t].entries = {}

(* C4: a session that has ended (its row is gone and no handler is still    *)
(* working on it) has exactly one row in games: settlement was applied      *)
(* exactly once, whatever terminal events arrived.                          *)
C4_SettledExactlyOnce ==
    \A sid \in 1..(next_session - 1) :
        (/\ sid \notin Active
         /\ \A h \in Handlers :
               handler[h].op \in {"make_move", "resign"}
               => handler[h].session_id # sid)
        => Cardinality(RecordsOf(sid)) = 1

(* C5: a make_move for an active session from any account other than the    *)
(* participant holding the turn is answered "Not your turn", and the steps  *)
(* of a request answered so change no table and broadcast nothing.          *)
C5_NotYourTurnRejected ==
    [][\A h \in Handlers :
         /\ (/\ ChecksMove(h)
             /\ handler[h].session_id \in Active
             /\ handler[h].user_id #
                    TurnHolder(active_games[handler[h].session_id]))
            => /\ handler'[h].pc = "done"
               /\ handler'[h].reply = "Not your turn"
               /\ DbUnchanged
         /\ (/\ handler'[h] # handler[h]
             /\ "Not your turn" \in {handler[h].reply, handler'[h].reply})
            => DbUnchanged]_vars

\* a participant was told "Not your turn", and so was an outsider
C5_Witness ==
    /\ \E h \in Handlers :
          /\ handler[h].pc = "done" /\ handler[h].reply = "Not your turn"
          /\ handler[h].user_id \in {handler[h].game.white_player_id,
                                     handler[h].game.black_player_id}
          /\ handler[h].session_id \in Active
    /\ \E h \in Handlers :
          /\ handler[h].pc = "done" /\ handler[h].reply = "Not your turn"
          /\ handler[h].user_id \notin {handler[h].game.white_player_id,
                                        handler[h].game.black_player_id}

(* C6: a make_move from the turn holder that the oracle does not allow in   *)
(* the current position is answered "Illegal move" (an unparsable one with  *)
(* the exception's message); the step changes no table, broadcasts nothing  *)
(* and leaves the session row in place.                                     *)
C6_IllegalMoveRejected ==
    [][\A h \in Handlers :
         (/\ ChecksMove(h)
          /\ handler[h].session_id \in Active
          /\ handler[h].user_id =
                 TurnHolder(active_games[handler[h].session_id])
          /\ handler[h].move \notin
                 LegalMoves(active_games[handler[h].session_id].current_fen))
         => /\ handler'[h].pc = "done"
            /\ handler'[h].reply =
                  (IF handler[h].move = "garbage" THEN "exception"
                   ELSE "Illegal move")
            /\ DbUnchanged
            /\ handler[h].session_id \in DOMAIN active_games']_vars

\* the turn holder was told "Illegal move" and the session is still there
C6_Witness ==
    \E h \in Handlers :
        /\ handler[h].pc = "done" /\ handler[h].reply = "Illegal move"
        /\ handler[h].move = "illegal"
        /\ handler[h].user_id = TurnHolder(handler[h].game)
        /\ handler[h].session_id \in Active
        /\ active_games[handler[h].session_id] = handler[h].game

\* the session has reached a terminal state: its position is game over, or
\* its row has been deleted
Terminal(sid) ==
    \/ sid \notin Active
    \/ IsGameOver(active_games[sid].current_fen)

(* C7: once a session is terminal it stays terminal, and a make_move that   *)
(* arrives when the session is terminal is answered "Game not found" and    *)
(* changes nothing.                                                         *)
C7_TerminalIsImmutable ==
    [][/\ \A sid \in 1..(next_session - 1) :
             Terminal(sid) =>
                \/ sid \notin DOMAIN active_games'
                \/ IsGameOver(active_games'[sid].current_fen)
       /\ \A h \in Handlers :
             (ChecksMove(h) /\ handler[h].issued_over)
             => /\ handler'[h].pc = "done"
                /\ handler'[h].reply = "Game not found"
                /\ DbUnchanged]_vars

(* C8: the move log of a session only grows at its end: the log before a    *)
(* step is a prefix of the log after it.                                    *)
C8_LogAppendOnly ==
    [][\A sid \in Active \cap DOMAIN active_games' :
          IsPrefix(active_games[sid].move_history,
                   active_games'[sid].move_history)]_vars

\* white's and black's score (doubled) for a result
WhiteScore2(result) == IF result = "1-0" THEN 2 ELSE IF result = "0-1" THEN 0 ELSE 1

BlackScore2(result) == 2 - WhiteScore2(result)

\* every row of games is a settled, finished game
C9_Records ==
    \A i \in DOMAIN games :
        LET rec == games[i]
            final == Replay(rec.pgn.moves) IN
        /\ IsGameOver(final)
        /\ rec.result = BoardResult(final)
        /\ rec.pgn.Result = rec.result
        /\ rec.white_rating_after =
              calculate_elo_rating(rec.white_rating_before,
                                   rec.black_rating_before, WhiteScore2(rec.result))
        /\ rec.black_rating_after =
              calculate_elo_rating(rec.black_rating_before,
                                   rec.white_rating_before, BlackScore2(rec.result))
        /\ (rec.white_rating_before = 1200 /\ rec.black_rating_before = 1210
            /\ rec.result = "1-0")
           => (rec.white_rating_after > 1200 /\ rec.black_rating_after < 1210)
        /\ (rec.black_rating_before = 1200 /\ rec.white_rating_before = 1210
            /\ rec.result = "0-1")
           => (rec.black_rating_after > 1200 /\ rec.white_rating_after < 1210)

\* a handler whose accepted move ended the game goes on to settle it, and
\* when it has finished the session row is gone, a row of games holds the
\* result, the full log and the ratings it read and computed, and the rating
\* changes have been broadcast to the session's room
C9_Settled ==
    \A h \in Handlers :
        LET r == handler[h] IN
        /\ (r.op = "make_move" /\ r.pc = "done" /\ r.reply = "move_made")
           => ~IsGameOver(r.fen)
        /\ (r.op = "make_move" /\ r.pc = "done" /\ r.reply = "ratings_updated")
           => /\ IsGameOver(r.fen)
              /\ r.session_id \notin Active
              /\ \E i \in RecordsOf(r.session_id) :
                    /\ games[i].result = BoardResult(r.fen)
                    /\ games[i].pgn.moves = r.move_history
                    /\ games[i].white_player_id = r.game.white_player_id
                    /\ games[i].black_player_id = r.game.black_player_id
                    /\ games[i].white_rating_before = r.white_before
                    /\ games[i].black_rating_before = r.black_before
                    /\ \E j \in DOMAIN emitted[r.session_id] :
                          emitted[r.session_id][j] =
                             [name |-> "ratings_updated",
                              white_rating_change |->
                                 games[i].white_rating_after - r.white_before,
                              black_rating_change |->
                                 games[i].black_rating_after - r.black_before]

\* the two rating updates store the ratings computed from the ratings read,
\* and record_game adds one row
C9_Steps ==
    \A h \in Handlers :
        LET r == handler[h] IN
        /\ (r.pc = "update_white" /\ handler'[h].pc = "update_black")
           => users'[r.game.white_player_id].rating =
                 calculate_elo_rating(r.white_before, r.black_before,
                                      WhiteScore2(BoardResult(r.fen)))
        /\ (r.pc = "update_black" /\ handler'[h].pc = "record_game")
           => users'[r.game.black_player_id].rating =
                 calculate_elo_rating(r.black_before, r.white_before,
                                      BlackScore2(BoardResult(r.fen)))
        /\ (r.pc = "record_game" /\ handler'[h].pc = "delete_active_game")
           => Len(games') = Len(games) + 1

(* C9: an accepted move that ends the game is settled: the result is the    *)
(* oracle's, both stored ratings become the Elo ratings computed from the   *)
(* ratings read before, one row with result, full log and ratings before    *)
(* and after is written, and the rating changes are broadcast; 1200 beating *)
(* 1210 ends above 1200 and leaves the loser below 1210.                    *)
C9_TerminalMoveSettles ==
    [](C9_Records /\ C9_Settled) /\ [][C9_Steps]_vars

\* white rated 1200 has mated black rated 1210 and the handler has finished
C9_Witness ==
    \E h \in Handlers :
        /\ handler[h].op = "make_move" /\ handler[h].pc = "done"
        /\ handler[h].reply = "ratings_updated"
        /\ handler[h].white_before = 1200 /\ handler[h].black_before = 1210
        /\ BoardResult(handler[h].fen) = "1-0"
        /\ users[handler[h].game.white_player_id].rating > 1200
        /\ users[handler[h].game.black_player_id].rating < 1210

(* C10: when a resign handler has finished on a session it found active,    *)
(* the session row is gone and a row of games for that session records the  *)
(* win of the resigner's opponent.                                          *)
C10_ResignSettles ==
    \A h \in Handlers :
        (/\ handler[h].op = "resign" /\ handler[h].pc = "done"
         /\ handler[h].reply = "player_resigned")
        => /\ handler[h].session_id \notin Active
           /\ \E i \in RecordsOf(handler[h].session_id) :
                 games[i].result = ResignResult(handler[h].game, handler[h].user_id)

\* the session is terminal after the step
TerminalNext(sid) ==
    \/ sid \notin DOMAIN active_games'
    \/ IsGameOver(active_games'[sid].current_fen)

(* C11: the handler of a dropped connection, when the client played in a    *)
(* session that was still active at the time the connection dropped, leaves *)
(* that session terminal; when the session was terminal already, the        *)
(* handler changes nothing.                                                 *)
C11_DisconnectTerminates ==
    [][\A h \in Handlers :
         (/\ handler[h].op = "disconnect"
          /\ handler[h].pc = "print" /\ handler'[h].pc = "done")
         => /\ handler[h].issued_over => DbUnchanged
            /\ (/\ ~handler[h].issued_over
                /\ handler[h].session_id \in Active
                /\ handler[h].user_id \in
                      {active_games[handler[h].session_id].white_player_id,
                       active_games[handler[h].session_id].black_player_id})
               => TerminalNext(handler[h].session_id)]_vars

\* handler h takes the step that calls db.join_matchmaking_queue
JoinsQueue(h) ==
    /\ handler[h].op = "join_matchmaking" /\ handler[h].pc = "join_queue"
    /\ handler'[h].pc # "join_queue"

(* C12: a join request whose account holds a queue entry at the time of its *)
(* insert is answered "Already in queue"; the queue is as before (the entry *)
(* keeps its rating, time control and enqueue time), the request never      *)
(* reaches find_match, and no later step of it changes a table.             *)
C12_DuplicateJoinFails ==
    [][\A h \in Handlers :
         /\ (JoinsQueue(h)
             /\ QueueEntry(matchmaking_queue, handler[h].user_id) # {})
            => /\ handler'[h].pc = "done"
               /\ handler'[h].reply = "Already in queue"
               /\ handler'[h].opponent = 0
               /\ matchmaking_queue' = matchmaking_queue
               /\ DbUnchanged
         /\ (/\ handler'[h] # handler[h]
             /\ "Already in queue" \in {handler[h].reply, handler'[h].reply})
            => DbUnchanged]_vars

\* a join was refused for an account whose entry was enqueued earlier
C12_Witness ==
    \E h \in Handlers :
        /\ handler[h].pc = "done" /\ handler[h].reply = "Already in queue"
        /\ \E e \in QueueEntry(matchmaking_queue, handler[h].user_id) :
              /\ e.joined_at < now
              /\ e.rating = handler[h].rating
              /\ e.queue_id = last_queue_id

(* C13: in every reachable state the matchmaking queue holds at most one    *)
(* entry per account.                                                       *)
C13_OneEntryPerAccount ==
    \A u \in UserIds : Cardinality(QueueEntry(matchmaking_queue, u)) <= 1

\* two accounts wait in the queue, one of them with an entry inserted after
\* earlier entries had been removed by a leave or a match
C13_Witness ==
    /\ Cardinality(matchmaking_queue) = 2
    /\ Cardinality({e.user_id : e \in matchmaking_queue}) = 2
    /\ \E e \in matchmaking_queue : e.queue_id >= 3
    /\ next_session > 1

\* handler h takes a step that calls db.leave_matchmaking_queue for user u:
\* the leave endpoint, or one of the two removals of a matched join
Leaves(h, u) ==
    \/ /\ handler[h].op = "leave_matchmaking" /\ handler[h].pc = "leave_queue"
       /\ handler'[h].pc = "done" /\ handler[h].user_id = u
    \/ /\ handler[h].op = "join_matchmaking" /\ handler[h].pc = "leave_self"
       /\ handler'[h].pc = "leave_opponent" /\ handler[h].user_id = u
    \/ /\ handler[h].op = "join_matchmaking" /\ handler[h].pc = "leave_opponent"
       /\ handler'[h].pc = "create_active_game" /\ handler[h].opponent = u

(* C18: a leave for an account with no entry changes nothing and is         *)
(* answered with success like any other leave; after a leave the account    *)
(* holds no entry, so a second leave changes nothing; the entries of other  *)
(* accounts are as before.                                                  *)
C18_LeaveIdempotent ==
    [][\A h \in Handlers, u \in UserIds :
         Leaves(h, u)
         => /\ handler[h].op = "leave_matchmaking"
                  => handler'[h].reply = "success"
            /\ QueueEntry(matchmaking_queue, u) = {}
                  => matchmaking_queue' = matchmaking_queue
            /\ QueueEntry(matchmaking_queue', u) = {}
            /\ \A v \in UserIds \ {u} :
                  QueueEntry(matchmaking_queue', v) = QueueEntry(matchmaking_queue, v)
            /\ UNCHANGED <<users, active_games, games, emitted>>]_vars

\* two leave requests for one account have both been answered with success,
\* and the entry of another account, enqueued second, is still in the queue
C18_Witness ==
    \E g, h \in Handlers :
        /\ g # h
        /\ handler[g].op = "leave_matchmaking" /\ handler[g].pc = "done"
        /\ handler[h].op = "leave_matchmaking" /\ handler[h].pc = "done"
        /\ handler[g].reply = "success" /\ handler[h].reply = "success"
        /\ handler[g].user_id = handler[h].user_id
        /\ \E e \in matchmaking_queue :
              e.user_id # handler[g].user_id /\ e.queue_id = 2

\* handler h takes the step that calls db.find_match
FindsMatch(h) ==
    /\ handler[h].op = "join_matchmaking" /\ handler[h].pc = "find_match"
    /\ handler'[h].pc # "find_match"

\* the entries find_match may pair with the entry own: another account, the
\* same time control, a rating within the tolerance
Eligible(own) ==
    {e \in matchmaking_queue :
        /\ e.user_id # own.user_id
        /\ e.time_control = own.time_control
        /\ e.rating - own.rating <= RatingRange
        /\ own.rating - e.rating <= RatingRange}

\* the queue entry that handler h's call of find_match returned
Returned(h) ==
    {e \in matchmaking_queue :
        /\ e.queue_id = handler'[h].opponent_queue_id
        /\ e.user_id = handler'[h].opponent}

(* C14 as claimed: find_match returns, among the entries of the caller's    *)
(* time control other than the caller's whose rating is within 200 of the   *)
(* caller's, the one whose rating is closest, the earliest enqueued among   *)
(* equally close ones.                                                      *)
C14_ReturnsClosest ==
    [][\A h \in Handlers :
         (FindsMatch(h) /\ handler'[h].pc = "leave_self")
         => \A own \in QueueEntry(matchmaking_queue, handler[h].user_id) :
            \E e \in Returned(h) :
               /\ e \in Eligible(own)
               /\ \A f \in Eligible(own) :
                     \/ Abs(e.rating - own.rating) < Abs(f.rating - own.rating)
                     \/ /\ Abs(e.rating - own.rating) = Abs(f.rating - own.rating)
                        /\ e.joined_at <= f.joined_at]_vars

(* C14 as amended: find_match returns, among the entries of the caller's    *)
(* time control other than the caller's whose rating is within 200 of the   *)
(* caller's, one that was enqueued earliest (no later than any other of     *)
(* them), whether or not its rating is the closest.                         *)
C14_ReturnsOldest ==
    [][\A h \in Handlers :
         (FindsMatch(h) /\ handler'[h].pc = "leave_self")
         => \A own \in QueueEntry(matchmaking_queue, handler[h].user_id) :
            \E e \in Returned(h) :
               /\ e \in Eligible(own)
               /\ \A f \in Eligible(own) : e.joined_at <= f.joined_at]_vars

\* find_match has returned the entry enqueued first although an entry
\* enqueued later is closer in rating to the caller's
C14_Witness ==
    \E h \in Handlers :
        /\ handler[h].op = "join_matchmaking" /\ handler[h].pc = "leave_self"
        /\ \E own \in QueueEntry(matchmaking_queue, handler[h].user_id) :
           \E e, f \in Eligible(own) :
              /\ e.queue_id = handler[h].opponent_queue_id
              /\ e.joined_at < f.joined_at
              /\ Abs(f.rating - own.rating) < Abs(e.rating - own.rating)

\* a call of find_match that returns a row returns a row of another account
\* with the caller's time control and a rating within the tolerance of the
\* caller's; it returns None exactly when the caller has no entry or no
\* such row exists
C15_Step ==
    \A h \in Handlers :
        FindsMatch(h)
        => LET own == QueueEntry(matchmaking_queue, handler[h].user_id) IN
           /\ handler'[h].pc \in {"leave_self", "done"}
           /\ handler'[h].pc = "leave_self"
                 => /\ handler'[h].opponent # handler[h].user_id
                    /\ \E c \in own, e \in Returned(h) :
                          /\ e.user_id # c.user_id
                          /\ e.time_control = c.time_control
                          /\ e.rating - c.rating <= RatingRange
                          /\ c.rating - e.rating <= RatingRange
           /\ handler'[h].pc = "done"
                 <=> (own = {} \/ \A c \in own : Eligible(c) = {})
           /\ handler'[h].pc = "done"
                 => handler'[h].reply = "Waiting for opponent"

\* the participants of a session are two accounts, and a handler that goes
\* on to create a session does so for its caller and the account returned
C15_Sessions ==
    /\ \A sid \in Active :
          active_games[sid].white_player_id # active_games[sid].black_player_id
    /\ \A h \in Handlers :
          (/\ handler[h].op = "join_matchmaking"
           /\ handler[h].pc \in {"leave_self", "leave_opponent",
                                 "create_active_game"})
          => /\ handler[h].opponent \in UserIds \ {handler[h].user_id}
             /\ handler[h].white_id \in {handler[h].user_id, handler[h].opponent}

(* C15: find_match never returns the caller's own entry, an entry of        *)
(* another time control or an entry rated more than 200 away from the       *)
(* caller's; it returns None exactly when the caller holds no entry or no   *)
(* other entry of the caller's time control within 200 exists; so the two   *)
(* participants of every session are distinct accounts of one time control  *)
(* rated within 200 of each other.                                          *)
C15_ReturnsCompatibleOnly ==
    []C15_Sessions /\ [][C15_Step]_vars

\* find_match returned None to a caller that holds an entry while the queue
\* holds an entry of the caller's time control rated too far away and an
\* entry rated within the tolerance that has another time control
C15_Witness ==
    \E h \in Handlers :
        /\ handler[h].op = "join_matchmaking" /\ handler[h].pc = "done"
        /\ handler[h].reply = "Waiting for opponent"
        /\ \E own \in QueueEntry(matchmaking_queue, handler[h].user_id) :
           \E e, f \in matchmaking_queue :
              /\ e.user_id # own.user_id /\ f.user_id # own.user_id
              /\ e.time_control = own.time_control
              /\ Abs(e.rating - own.rating) > RatingRange
              /\ f.time_control # own.time_control
              /\ Abs(f.rating - own.rating) <= RatingRange

\* handler h has been given a match by find_match and has not replied yet
Matched(h) ==
    /\ handler[h].op = "join_matchmaking"
    /\ handler[h].pc \in {"leave_self", "leave_opponent", "create_active_game"}

\* the queue rows with one of these queue_id
EntriesOf(ids) == {e \in matchmaking_queue : e.queue_id \in ids}

(* C16: when a join request has been answered "matched", neither of the two *)
(* matched entries is in the queue; no other join request calls find_match  *)
(* on a queue that holds one of the two matched entries of a match without  *)
(* the other; and the removals of a match leave every other entry as it     *)
(* was.                                                                     *)
C16_MatchRemovesBoth ==
    [][/\ \A h \in Handlers :
             (Matched(h) /\ handler'[h].pc = "done")
             => EntriesOf({handler[h].queue_id,
                           handler[h].opponent_queue_id})' = {}
       /\ \A g, h \in Handlers :
             (g # h /\ FindsMatch(g) /\ Matched(h))
             => (EntriesOf({handler[h].queue_id}) = {}
                 <=> EntriesOf({handler[h].opponent_queue_id}) = {})
       /\ \A h \in Handlers :
             (Matched(h) /\ handler'[h] # handler[h])
             => matchmaking_queue \ matchmaking_queue'
                   \subseteq EntriesOf({handler[h].queue_id,
                                        handler[h].opponent_queue_id})]_vars

\* handler h takes the step that calls db.create_active_game
CreatesGame(h) ==
    /\ handler[h].op = "join_matchmaking"
    /\ handler[h].pc = "create_active_game" /\ handler'[h].pc = "done"

(* C17: the session a matched join creates has an id that no session, room  *)
(* or completed record had before; its participants are the requester and   *)
(* the account find_match returned, one as white and the other as black; it *)
(* starts in the initial position with an empty log and full clocks; every  *)
(* other session is untouched; and the colour in the reply is the colour    *)
(* the session row gives the requester.                                     *)
C17_SessionCreated ==
    [][\A h \in Handlers :
         CreatesGame(h)
         => LET sid == handler'[h].session_id
                r == handler[h] IN
            /\ handler'[h].reply = "matched"
            /\ sid \notin Active
            /\ sid \notin 1..(next_session - 1)
            /\ emitted[sid] = <<>> /\ RecordsOf(sid) = {}
            /\ DOMAIN active_games' = Active \cup {sid}
            /\ \A s \in Active : active_games'[s] = active_games[s]
            /\ LET game == active_games'[sid] IN
               /\ game.session_id = sid
               /\ {game.white_player_id, game.black_player_id}
                     = {r.user_id, r.opponent}
               /\ game.white_player_id # game.black_player_id
               /\ game.current_fen = StartFen
               /\ game.move_history = <<>>
               /\ ~IsGameOver(game.current_fen)
               /\ game.white_time_remaining = InitialClock
               /\ game.black_time_remaining = InitialClock
               /\ handler'[h].your_color \in {"white", "black"}
               /\ handler'[h].your_color = "white"
                     <=> game.white_player_id = r.user_id
               /\ handler'[h].your_color = "black"
                     <=> game.black_player_id = r.user_id
               /\ handler'[h].opponent \in
                     {game.white_player_id, game.black_player_id} \ {r.user_id}]_vars

\* a second session has just been created next to the first, with the
\* requester told to play black
C17_Witness ==
    \E h \in Handlers :
        /\ handler[h].op = "join_matchmaking" /\ handler[h].pc = "done"
        /\ handler[h].reply = "matched" /\ handler[h].your_color = "black"
        /\ handler[h].session_id = 2
        /\ Active = {1, 2}
        /\ active_games[2].black_player_id = handler[h].user_id
        /\ active_games[2].white_player_id = handler[h].opponent

BudgetToMove(game) ==
    IF game.current_fen.turn = "w" THEN game.white_time_remaining
    ELSE game.black_time_remaining

\* the participant to move has used up the budget of the row: at least that
\* many seconds have passed since the last move (or the creation)
ClockExpired(game) == now - game.last_move_time >= BudgetToMove(game)

(* C20: a make_move of the participant to move whose clock budget has run   *)
(* out when the handler reads the session is answered with a time-expired   *)
(* error, and the session is terminal once that handler has answered.       *)
C20_TimeExpiredRejected ==
    [][\A h \in Handlers :
         (/\ ChecksMove(h)
          /\ handler[h].session_id \in Active
          /\ ~IsGameOver(active_games[handler[h].session_id].current_fen)
          /\ handler[h].user_id =
                TurnHolder(active_games[handler[h].session_id])
          /\ ClockExpired(active_games[handler[h].session_id]))
         => /\ handler'[h].pc = "done"
            /\ handler'[h].reply = "Time expired"
            /\ TerminalNext(handler[h].session_id)]_vars

\* handler h takes the step that commits its accepted move
CommitsMove(h) ==
    /\ handler[h].op = "make_move"
    /\ handler[h].pc = "update_active_game"
    /\ handler'[h].pc = "emit_move_made"

(* C21: the commit of an accepted move takes the time consumed since the    *)
(* last transition (the code knows no increment) off the clock budget of    *)
(* the participant who moved, leaves the opponent's budget as it was, and   *)
(* sets the last-transition time to the time of the commit.                 *)
C21_ClockUpdated ==
    [][\A h \in Handlers :
         (CommitsMove(h) /\ handler[h].session_id \in Active)
         => LET game == active_games[handler[h].session_id]
                after == active_games'[handler[h].session_id]
                consumed == now - game.last_move_time IN
            /\ after.last_move_time = now
            /\ IF game.current_fen.turn = "w"
               THEN /\ after.white_time_remaining =
                          game.white_time_remaining - consumed
                    /\ after.black_time_remaining = game.black_time_remaining
               ELSE /\ after.black_time_remaining =
                          game.black_time_remaining - consumed
                    /\ after.white_time_remaining = game.white_time_remaining]_vars

(* C22: the commit of an accepted move appends exactly that move at the end *)
(* of the session's log, replaces the position by the oracle's position     *)
(* after the move, and passes the turn to the other participant, in one     *)
(* step; the participants, their colours and the session id stay as they    *)
(* were.                                                                    *)
C22_CommitAppends ==
    [][\A h \in Handlers :
         CommitsMove(h)
         => /\ handler[h].session_id \in Active
            /\ LET game == active_games[handler[h].session_id]
                   after == active_games'[handler[h].session_id] IN
               /\ after.move_history = Append(game.move_history, handler[h].move)
               /\ handler[h].move \in LegalMoves(game.current_fen)
               /\ after.current_fen = Push(game.current_fen, handler[h].move)
               /\ after.current_fen.turn = Other(game.current_fen.turn)
               /\ after.session_id = game.session_id
               /\ after.white_player_id = game.white_player_id
               /\ after.black_player_id = game.black_player_id]_vars

\* the move_made events broadcast to the room of a session, in order
MoveEvents(sid) == SelectSeq(emitted[sid], LAMBDA e : e.name = "move_made")

(* C23: the move_made events broadcast to a session's room are, in order,   *)
(* the first transitions of the session's log: the i-th event carries the   *)
(* i-th move of the log and the position after it.                          *)
C23_EventsInLogOrder ==
    \A sid \in Active :
        LET events == MoveEvents(sid)
            log == active_games[sid].move_history IN
        /\ Len(events) <= Len(log)
        /\ \A i \in DOMAIN events :
              /\ events[i].move = log[i]
              /\ events[i].fen = Replay(SubSeq(log, 1, i))

\* a handler is in the settlement of session sid, or about to enter it
Settling(sid) ==
    \E h \in Handlers :
        /\ handler[h].op = "make_move" /\ handler[h].session_id = sid
        /\ handler[h].pc \in SettlementSteps \cup {"emit_move_made"}

(* C24: a session whose game is over and that has not been settled (its row *)
(* is still in active_games) is being settled: as long as it is held, some  *)
(* handler is working on its settlement, so that a settlement stopped by a  *)
(* failing database call is taken up again and not given up.                *)
C24_UnsettledIsRetried ==
    \A sid \in Active :
        IsGameOver(active_games[sid].current_fen) => Settling(sid)

(* C25: a join_game for a room name that is no session's id, or for a       *)
(* session that is terminal, is answered "Game not found" and changes       *)
(* nothing: the connection it came on is not added to the room of that      *)
(* name.                                                                    *)
C25_AttachUnknownFails ==
    [][\A h \in Handlers :
         (/\ handler[h].op = "join_game"
          /\ handler'[h] # handler[h]
          /\ Terminal(handler[h].session_id))
         => /\ rooms' = rooms
            /\ DbUnchanged
            /\ handler'[h].pc = "done"
                  => handler'[h].reply = "Game not found"]_vars

(* C26: join_room and leave_room are idempotent set operations on the room  *)
(* of one session: joining adds the connection (nothing changes when it is  *)
(* in the room already), leaving removes it (nothing changes when it is not *)
(* in the room), every other room is as before, and no step of join_game or *)
(* leave_game changes a session row, the queue, an account or a record.     *)
C26_RoomsAreSets ==
    [][\A h \in Handlers :
         LET r == handler[h] IN
         (r.op \in {"join_game", "leave_game"} /\ handler'[h] # r)
         => /\ UNCHANGED <<users, matchmaking_queue, active_games, games,
                           next_session, accounts>>
            /\ \A room \in RoomIds \ {r.session_id} : rooms'[room] = rooms[room]
            /\ (r.pc = "join_room")
                  => /\ rooms'[r.session_id] = rooms[r.session_id] \cup {r.request_sid}
                     /\ r.request_sid \in rooms[r.session_id] => rooms' = rooms
            /\ (r.pc = "leave_room")
                  => /\ rooms'[r.session_id] = rooms[r.session_id] \ {r.request_sid}
                     /\ r.request_sid \notin rooms[r.session_id] => rooms' = rooms
            /\ (r.pc \notin {"join_room", "leave_room"}) => rooms' = rooms]_vars

\* a connection that was in the room of session 1 already has joined it
\* again and is in it once, while the other connection sits in another room
C26_Witness ==
    /\ rooms[1] = {1}
    /\ rooms[0] = {2}
    /\ 1 \in Active
    /\ \E h \in Handlers :
          /\ handler[h].op = "join_game" /\ handler[h].pc = "done"
          /\ handler[h].reply = "game_joined"
          /\ handler[h].session_id = 1 /\ handler[h].request_sid = 1
    /\ Len(emitted[1]) = 2
    /\ emitted[1][1].name = "player_joined"
    /\ emitted[1][2].name = "player_joined"

(* C27: no step of a make_move or resign handler for session X, accepted,   *)
(* rejected or settling, changes another session Y: Y's row (position, log, *)
(* clocks, participants) and its existence are as before, nothing is        *)
(* broadcast to Y's room, and the queue is untouched.                       *)
C27_OtherSessionsUntouched ==
    [][\A h \in Handlers :
         (handler[h].op \in {"make_move", "resign"} /\ handler'[h] # handler[h])
         => /\ \A sid \in Active \ {handler[h].session_id} :
                  /\ sid \in DOMAIN active_games'
                  /\ active_games'[sid] = active_games[sid]
            /\ DOMAIN active_games' \subseteq Active
            /\ \A room \in RoomIds \ {handler[h].session_id} :
                  emitted'[room] = emitted[room]
            /\ UNCHANGED <<matchmaking_queue, next_session, rooms>>]_vars

\* session 1 has been settled and deleted while session 2, one move played,
\* is still there
C27_Witness ==
    /\ Active = {2}
    /\ active_games[2].move_history = <<"quiet">>
    /\ RecordsOf(1) # {}
    /\ \E h \in Handlers :
          /\ handler[h].op = "make_move" /\ handler[h].pc = "done"
          /\ handler[h].reply = "ratings_updated"
          /\ handler[h].session_id = 1

\* a settlement that has computed both ratings
Rated(r) == r.op = "settle" /\ r.pc = "done"

\* the winner's and the loser's rating before and after a decisive settlement
WinnerBefore(r) == IF r.result = "1-0" THEN r.white_before ELSE r.black_before
WinnerAfter(r) == IF r.result = "1-0" THEN r.white_after ELSE r.black_after
LoserBefore(r) == IF r.result = "1-0" THEN r.black_before ELSE r.white_before
LoserAfter(r) == IF r.result = "1-0" THEN r.black_after ELSE r.white_after

(* C28: with K = 32, settling a draw between two participants rated 1200     *)
(* returns (1200, 1200), and settling a win of a participant rated 1200 over *)
(* one rated 1400 gives the winner a rating strictly greater than 1200 and   *)
(* the loser a rating strictly lower than 1400, the winner gaining exactly   *)
(* the integer number of points the loser loses.                             *)
C28_SettleExamples ==
    \A h \in Handlers :
       LET r == handler[h] IN
       Rated(r) =>
          /\ KFactor = 32
          /\ (r.result = "1/2-1/2" /\ r.white_before = 1200
                 /\ r.black_before = 1200)
             => (r.white_after = 1200 /\ r.black_after = 1200)
          /\ (r.result # "1/2-1/2" /\ WinnerBefore(r) = 1200
                 /\ LoserBefore(r) = 1400)
             => /\ WinnerAfter(r) > 1200
                /\ LoserAfter(r) < 1400
                /\ WinnerAfter(r) - 1200 = 1400 - LoserAfter(r)

\* one settlement of a 1200 v 1200 draw and one of a win of 1200 over 1400
\* have both been computed
C28_Witness ==
    \E h \in Handlers, g \in Handlers :
       /\ Rated(handler[h]) /\ handler[h].result = "1/2-1/2"
       /\ handler[h].white_before = 1200 /\ handler[h].black_before = 1200
       /\ Rated(handler[g]) /\ handler[g].result = "0-1"
       /\ handler[g].black_before = 1200 /\ handler[g].white_before = 1400
       /\ handler[g].black_after = 1224 /\ handler[g].white_after = 1376

\* a step of a settlement being computed
Rates(h) == handler[h].op = "settle" /\ handler'[h] # handler[h]

\* what a settlement was computed from
EloInputs(r) == <<r.white_before, r.black_before, r.result>>

(* C29: for every pair of ratings and every outcome, the two rating deltas   *)
(* of a settlement are not of the same sign and their sum is -1, 0 or 1; two *)
(* settlements computed from the same ratings and outcome give the same two  *)
(* ratings; and computing them changes nothing that is stored.               *)
C29_DeltasOpposite ==
    [][\A h \in Handlers :
         Rates(h) =>
            /\ UNCHANGED <<users, matchmaking_queue, active_games, games,
                           next_session, last_queue_id, emitted, now, rooms,
                           accounts>>
            /\ Rated(handler'[h]) =>
                  LET r == handler'[h]
                      dw == r.white_after - r.white_before
                      db == r.black_after - r.black_before
                  IN  /\ dw + db \in {-1, 0, 1}
                      /\ ~(dw > 0 /\ db > 0)
                      /\ ~(dw < 0 /\ db < 0)
                      /\ \A g \in Handlers :
                            (Rated(handler'[g])
                               /\ EloInputs(handler'[g]) = EloInputs(r))
                            => /\ handler'[g].white_after = r.white_after
                               /\ handler'[g].black_after = r.black_after]_vars

\* two settlements computed from the same unequal ratings, both of which
\* moved
C29_Witness ==
    \E h \in Handlers, g \in Handlers :
       /\ h # g
       /\ Rated(handler[h]) /\ Rated(handler[g])
       /\ EloInputs(handler[h]) = EloInputs(handler[g])
       /\ handler[h].white_before # handler[h].black_before
       /\ handler[h].white_after # handler[h].white_before
       /\ handler[h].black_after # handler[h].black_before

\* the call of create_user of a registration is made in this step
CreatesUser(h) ==
    /\ handler[h].op = "register" /\ handler[h].pc = "create_user"
    /\ handler'[h] # handler[h]

\* the SELECT of authenticate_user of a login is made in this step
Authenticates(h) ==
    /\ handler[h].op = "login" /\ handler[h].pc = "select_user"
    /\ handler'[h] # handler[h]

\* the accounts stored under this username
AccountsNamed(username) ==
    {u \in DOMAIN accounts : accounts[u].username = username}

(* C30: create_user with a username that already exists returns no user id   *)
(* and leaves the stored accounts as they were; authenticate_user yields a   *)
(* user only when an account has the username and the hash of the password   *)
(* given, that user being this account, and it yields no user for an         *)
(* existing username with another password; a login is answered with success *)
(* only for a user so found.                                                 *)
C30_DuplicateAndPassword ==
    [][\A h \in Handlers :
         /\ (CreatesUser(h) /\ AccountsNamed(handler[h].username) # {})
            => /\ handler'[h].pc = "done"
               /\ handler'[h].user_id = 0
               /\ handler'[h].reply = "exists"
               /\ accounts' = accounts
               /\ users' = users
         /\ Authenticates(h)
            => LET r == handler[h]
                   matching == {u \in AccountsNamed(r.username) :
                                   accounts[u].password_hash
                                       = hash_password(r.password)}
               IN  /\ handler'[h].user_id # 0
                      => /\ handler'[h].user_id \in matching
                         /\ handler'[h].pc = "update_last_login"
                   /\ matching = {}
                      => /\ handler'[h].user_id = 0
                         /\ handler'[h].pc = "done"
                         /\ handler'[h].reply = "invalid"
                         /\ accounts' = accounts
         /\ (handler[h].op = "login" /\ handler'[h].op = "login"
                /\ handler'[h].reply = "success")
            => /\ handler'[h].user_id \in DOMAIN accounts
               /\ accounts[handler'[h].user_id].username = handler'[h].username
               /\ accounts[handler'[h].user_id].password_hash
                      = hash_password(handler'[h].password)]_vars

\* an account exists under a username; a registration of this username with
\* another password was answered "exists", a login with the password of the
\* account succeeded, and the account still has its first password
C30_Witness ==
    \E h \in Handlers, g \in Handlers, u \in DOMAIN accounts :
       /\ handler[h].op = "register" /\ handler[h].pc = "done"
       /\ handler[h].reply = "exists"
       /\ handler[h].username = accounts[u].username
       /\ hash_password(handler[h].password) # accounts[u].password_hash
       /\ handler[g].op = "login" /\ handler[g].pc = "done"
       /\ handler[g].reply = "success" /\ handler[g].user_id = u
       /\ accounts[u].last_login >= 0

(* C31: the step of a matched join that creates the session leaves both     *)
(* participants attached to it: the room of the new session has (at least)  *)
(* two connections, the requester's and the waiting opponent's, without     *)
(* either of them having sent a join_game event.                            *)
C31_MatchAttachesBoth ==
    [][\A h \in Handlers :
         CreatesGame(h)
         => \A sid \in DOMAIN active_games' \ Active :
               Cardinality(rooms'[sid]) >= 2]_vars

\* the accounts that play in a session row
Participants(game) == {game.white_player_id, game.black_player_id}

(* C32: a resign request that names an account that is neither the white    *)
(* nor the black participant of its (active) session is rejected: no step   *)
(* of its handler changes or removes a session row or announces anything to *)
(* a room, and it is not answered as a resignation.                         *)
C32_OnlyParticipantResigns ==
    [][\A h \in Handlers :
         (/\ handler[h].op = "resign"
          /\ handler'[h] # handler[h]
          /\ handler[h].session_id \in Active
          /\ handler[h].user_id
                \notin Participants(active_games[handler[h].session_id]))
         => /\ active_games' = active_games
            /\ emitted' = emitted
            /\ handler'[h].reply # "player_resigned"]_vars

(* C33: an account is a participant of at most one active session at any    *)
(* time: no two rows of active_games share a participant.                   *)
C33_OneSessionPerAccount ==
    \A s1 \in Active, s2 \in Active :
       s1 # s2
       => Participants(active_games[s1]) \cap Participants(active_games[s2]) = {}

(* C34: settlement is all-or-nothing: a session that is still in            *)
(* active_games, once no handler is working on its settlement (whether it   *)
(* has not begun or was stopped by a failing database call), has none of    *)
(* the effects of a settlement: its participants' ratings are those stored  *)
(* when it was created and no completed-game record exists for it.          *)
C34_SettlementAllOrNothing ==
    \A sid \in Active :
       ~Settling(sid)
       => /\ users[active_games[sid].white_player_id].rating
                = active_games[sid].created_ratings[1]
          /\ users[active_games[sid].black_player_id].rating
                = active_games[sid].created_ratings[2]
          /\ RecordsOf(sid) = {}

\* two queue rows of different accounts that find_match would pair
Compatible(e, f) ==
    /\ e.user_id # f.user_id
    /\ e.time_control = f.time_control
    /\ Abs(e.rating - f.rating) <= RatingRange

(* C35: whenever no join request is in progress, the queue holds no two      *)
(* entries of different accounts with the same time control and ratings      *)
(* within the tolerance of each other, in every interleaving of concurrent   *)
(* join and leave requests.                                                  *)
C35_NoCompatiblePairWaits ==
    JoinsInFlight = {}
    => \A e \in matchmaking_queue, f \in matchmaking_queue : ~Compatible(e, f)

\* three rows have been inserted, two of them were matched into a session,
\* one account waits and no join request is in progress
C35_Witness ==
    /\ JoinsInFlight = {}
    /\ last_queue_id >= 3
    /\ Active # {}
    /\ Cardinality(matchmaking_queue) = 1

(* C36: in every reachable state, concurrent proposals included, the        *)
(* position stored for an active session is the position reached by         *)
(* replaying its stored move log from the initial position, and white is to *)
(* move exactly when the log has even length.                               *)
C36_StateAgreesWithLog ==
    \A sid \in Active :
       LET game == active_games[sid] IN
       /\ game.current_fen = Replay(game.move_history)
       /\ (game.current_fen.turn = "w") <=> (Len(game.move_history) % 2 = 0)

\* two moves have been committed to a session, the second by a handler that
\* ran while another make_move was being handled, and white is to move again
C36_Witness ==
    \E sid \in Active, h \in Handlers, g \in Handlers :
       /\ Len(active_games[sid].move_history) = 2
       /\ active_games[sid].current_fen.turn = "w"
       /\ h # g
       /\ handler[h].op = "make_move" /\ handler[h].session_id = sid
       /\ handler[h].pc = "emit_move_made"
       /\ handler[g].op = "make_move" /\ handler[g].session_id = sid
       /\ handler[g].pc = "done" /\ handler[g].reply = "move_made"

\* a recorded game between two distinct accounts with a decisive or drawn
\* result
RegularGame(white_id, black_id, result) ==
    white_id # black_id /\ result \in Results

\* the counters of an account add up
Balanced(row) ==
    row.games_played = row.games_won + row.games_lost + row.games_drawn

\* the counters won, lost, drawn of a users row
Outcomes(row) == <<row.games_won, row.games_lost, row.games_drawn>>

\* what one game adds to the counters of a player with this doubled score
OutcomeOf(score2) ==
    IF score2 = 2 THEN <<1, 0, 0>>
    ELSE IF score2 = 0 THEN <<0, 1, 0>> ELSE <<0, 0, 1>>

\* handler h takes the step that calls record_game
RecordsGame(h) ==
    /\ handler[h].op = "record_game" /\ handler[h].pc = "record_game"
    /\ handler'[h].pc = "done"

(* C37: a call of record_game for two distinct accounts with result 1-0,    *)
(* 0-1 or 1/2-1/2 raises games_played of exactly its two players by one and *)
(* exactly one of games_won, games_lost, games_drawn of each of them (won    *)
(* for the winner, lost for the loser, drawn for both in a draw), and       *)
(* leaves every other account and every rating as it was; and as long as    *)
(* all recorded games are of this kind, every account has                   *)
(* games_played = games_won + games_lost + games_drawn.                     *)
C37_CountersAddUp ==
    [][/\ \A h \in Handlers :
            (RecordsGame(h)
               /\ RegularGame(handler[h].white_id, handler[h].opponent,
                              handler[h].result))
            => LET r == handler[h]
                   score2 == [u \in {r.white_id, r.opponent} |->
                                 IF u = r.white_id THEN Scores(r.result)[1]
                                 ELSE Scores(r.result)[2]]
               IN  /\ Len(games') = Len(games) + 1
                   /\ \A u \in UserIds :
                         /\ users'[u].rating = users[u].rating
                         /\ u \notin {r.white_id, r.opponent}
                            => users'[u] = users[u]
                         /\ u \in {r.white_id, r.opponent}
                            => /\ users'[u].games_played
                                     = users[u].games_played + 1
                               /\ \A k \in 1..3 :
                                     Outcomes(users'[u])[k]
                                        = Outcomes(users[u])[k]
                                             + OutcomeOf(score2[u])[k]
       /\ (\A i \in DOMAIN games' :
              RegularGame(games'[i].white_player_id,
                          games'[i].black_player_id, games'[i].result))
          => \A u \in UserIds : Balanced(users'[u])]_vars

\* three regular games have been recorded, one of each result, and an
\* account has played in all of them
C37_Witness ==
    /\ Len(games) = 3
    /\ {games[i].result : i \in DOMAIN games} = Results
    /\ \A i \in DOMAIN games :
          RegularGame(games[i].white_player_id, games[i].black_player_id,
                      games[i].result)
    /\ \E u \in UserIds :
          /\ users[u].games_played = 3
          /\ users[u].games_drawn = 1
          /\ Balanced(users[u])

\* the clock of a colour (read only where time control is enabled)
ClockOf(g, color) == IF color = "w" THEN g.white_time ELSE g.black_time

\* the step is a call of update_time on the ChessGame object
UpdatesTime ==
    /\ local'.calls = local.calls + 1
    /\ local'.call = "update_time"

(* C38: with time control enabled, update_time(color, used) sets that        *)
(* colour's remaining time to its previous value minus the time used plus    *)
(* the increment and leaves the other colour's time and everything else of   *)
(* the game unchanged; with no time control enabled it changes nothing; and  *)
(* is_time_out(color) holds exactly when time control is enabled and that    *)
(* colour's remaining time is at most zero.                                  *)
C38_UpdateTime ==
    [][/\ UpdatesTime
          => LET color == local'.color
                 used == local'.time_used
             IN  IF chess_game.time_controls = None
                 THEN chess_game' = chess_game
                 ELSE /\ ClockOf(chess_game', color)
                            = ClockOf(chess_game, color) - used
                                 + chess_game.time_controls.increment
                      /\ ClockOf(chess_game', Other(color))
                            = ClockOf(chess_game, Other(color))
                      /\ chess_game'.time_controls = chess_game.time_controls
                      /\ chess_game'.board = chess_game.board
                      /\ chess_game'.move_history = chess_game.move_history
       /\ \A color \in Colors :
             is_time_out(chess_game', color)
             <=> (/\ chess_game'.time_controls # None
                  /\ ClockOf(chess_game', color) <= 0)]_vars

\* with a one-minute clock and one second of increment, white has used 61
\* seconds: white's clock stands at zero and is timed out, black's is full
C38_Witness ==
    /\ local.call = "update_time" /\ local.color = "w"
    /\ local.time_used = 61
    /\ chess_game.time_controls = [base |-> 60, increment |-> 1]
    /\ chess_game.white_time = 0
    /\ chess_game.black_time = 60
    /\ is_time_out(chess_game, "w") /\ ~is_time_out(chess_game, "b")

\* time control is on and the clock of the player to move is at most zero
OutOfTime(g) ==
    /\ g.time_controls # None
    /\ ClockOf(g, g.board.turn) <= 0

(* C39: in a local player-vs-player game with time control, a player whose   *)
(* remaining time is at most zero when their turn starts loses on time: the  *)
(* loop ends, no further move is ever recorded, and the player who is not to *)
(* move is declared the winner; nobody loses on time otherwise; and a legal  *)
(* move entered by a player whose clock was positive at the start of the     *)
(* turn is recorded, also when the time it took brings that player's clock   *)
(* to zero or below.                                                         *)
C39_LossOnTime ==
    [][/\ (local.pc = "turn" /\ local' # local)
          => /\ chess_game' = chess_game
             /\ local'.time_forfeit = OutOfTime(chess_game)
             /\ local'.pc = IF OutOfTime(chess_game) THEN "game_over"
                            ELSE "input"
       /\ local.time_forfeit
          => /\ chess_game' = chess_game
             /\ local'.time_forfeit
             /\ local'.pc \in {"game_over", "saved"}
       /\ (local.time_forfeit /\ local'.pc = "saved" /\ local.pc # "saved")
          => local'.winner = IF chess_game.board.turn = "w" THEN "Player 2"
                             ELSE "Player 1"
       /\ (local.pc = "input" /\ local' # local)
          => /\ ~OutOfTime(chess_game)
             /\ IF local'.move \in LegalMoves(chess_game.board)
                THEN /\ chess_game'.board
                           = Push(chess_game.board, local'.move)
                     /\ chess_game'.move_history
                           = Append(chess_game.move_history, local'.move)
                     /\ local'.pc = "loop"
                ELSE /\ chess_game' = chess_game
                     /\ local'.pc = "turn"]_vars

\* white's first move took 61 seconds of a one-minute clock and was recorded,
\* black answered, and white, whose clock was below zero when the next turn
\* began, lost on time: Player 2 is the winner and two moves are recorded
C39_Witness ==
    /\ local.pc = "saved" /\ local.time_forfeit
    /\ local.winner = "Player 2"
    /\ chess_game.time_controls # None
    /\ chess_game.move_history = <<"quiet", "quiet">>
    /\ chess_game.white_time < 0
    /\ chess_game.black_time > 0

=============================================================================
